---- MODULE Spec2Model ----
(***************************************************************************)
(* State-machine model of the Foundry sandbox MCP server:                  *)
(*   ForgeTool.runTest          (src/src/tools/forge-tool.ts)              *)
(*   DockerManager              (src/unnamed/part_008)                     *)
(* The Docker engine is modelled by its observable state (the image tag,   *)
(* the set of containers) and every awaited engine call is one action      *)
(* whose outcome (success or one of the failures the code handles) is      *)
(* chosen nondeterministically.                                            *)
(***************************************************************************)
EXTENDS Integers, Sequences, FiniteSets, TLC

\* ------------------------------------------------------------------ bounds
MaxRuns == 2        \* runTest invocations started in one behaviour
TimeoutTicks == 2   \* the exec timer's duration, in clock ticks
GraceTicks == 1     \* the 5000 ms sink-flush grace period, in clock ticks
MaxChunks == 2      \* output chunks captured per sink for the test command
MaxDepth == 2       \* directory levels below the file system root
MaxOccupied == 2    \* candidate locations that hold a build file

\* --------------------------------------------------------------- constants
Runs == {1, 2}                      \* slots for runTest invocations in flight
NoContainer == 0                    \* DockerManager.containerId === null
NoCall == 0                         \* the initial, resolved dockerLifecycleLock
ChunkAlphabet == {"Revert", "\n"}
Keywords == {"Error", "Failed", "Revert", "ReentrancyGuard", "AssertionError",
             "Unable to resolve"}
GenericReason == <<"Test execution failed">>
ExitCodes == {0, 1}                 \* exit statuses the engine may report
NoExitCode == 0 - 1                 \* inspect.ExitCode ?? -1

VARIABLES
  cfg,            \* scenario: which slots run, which inputs are drawn
  imagePresent,   \* engine: the tag foundry-sandbox:latest exists
  containers,     \* engine: id -> "created" | "running" | "exited" (existing ones)
  nextId,         \* engine: next container id
  runsStarted,    \* number of runTest invocations started
  pc,             \* per run: position in runTest / DockerManager
  xpc,            \* per run: position inside one exec (create,start,wait,grace,inspect)
  checks,         \* per run: outcome of each input check
  deps,           \* per run: normalized dependency lists {forge, npm, yarn}
  prune,          \* per run: validatedArgs.enablePrune (drawn where it is first read)
  libs,           \* per run: number of distinct libs directories
  containerId,    \* per run: DockerManager.containerId
  mine,           \* per run: ids of the containers this run created
  err,            \* per run: the error caught by runTest's catch ("none" if none)
  result,         \* per run: execCommand's result {stdout, stderr, exitCode}
  report,         \* per run: the report runTest returned
  clock,          \* per run: ticks since the exec timer was armed
  streamOpen,     \* per run: the exec's output stream handle is open
  cobj,           \* per run: the local `container` of createAndStartContainer
  idx,            \* per run: loop index (libs directory / forge dependency)
  counts,         \* per run: forge-loop counters {ok, failed}
  hist,           \* per run: observations used by the properties
  ghost,          \* observations about the engine: builds spawned, image at the start
  fenv,           \* runForgeInDocker: FOUNDRY_MCP_AUTO_BUILD and FOUNDRY_MCP_CLEANUP_IMAGE
  dockerLifecycleLock, \* the call whose release resolves the lock promise (0: resolved)
  previous,       \* per call: the lock promise it awaits
  released,       \* the calls whose release() has run
  fpc,            \* per call of runForgeInDocker: its position
  imageBuilt,     \* per call: what ensureSandboxImage returned
  forgeResult,    \* per call: "none", "result" or "error"
  fhist,          \* per call: observations used by the properties
  given,          \* per slot: the manifest section handed to normalizeDependencies
  containerName,  \* per slot: the name createAndStartContainer generated
  fsys,           \* the host file system: where foundry.toml lies, the working directory
  projectPath,    \* per call: options.projectPath (the startDir of the root search)
  rootResult,     \* per call: what findFoundryProjectRoot returned or threw
  forgeArgs,      \* per call: options.forgeArgs, an array
  forgeArgsWithConfig \* per call: what ensureConfigPathArg returned

vars == <<cfg, imagePresent, containers, nextId, runsStarted, pc, xpc, checks,
          deps, prune, libs, containerId, cobj, mine, err, result, report, clock,
          streamOpen, idx, counts, hist, ghost, fenv, dockerLifecycleLock, previous,
          released, fpc, imageBuilt, forgeResult, fhist, given, containerName, fsys,
          projectPath, rootResult, forgeArgs, forgeArgsWithConfig>>

engineVars == <<imagePresent, containers, nextId>>
execVars == <<xpc, clock, streamOpen>>
inputVars == <<checks, deps, libs>>
runVars == <<runsStarted, pc, xpc, checks, deps, prune, libs, containerId, cobj, mine,
             err, result, report, clock, streamOpen, idx, counts, hist, given,
             containerName>>
pathVars == <<fsys, projectPath, rootResult, forgeArgs, forgeArgsWithConfig>>
forgeVars == <<fenv, dockerLifecycleLock, previous, released, fpc, imageBuilt,
               forgeResult, fhist, pathVars>>

\* ----------------------------------------------------------------- helpers
Range(s) == {s[i] : i \in 1..Len(s)}

NoResult == [stdout |-> <<>>, stderr |-> <<>>, exitCode |-> NoExitCode, set |-> FALSE]
NoReport == [form |-> "none", status |-> "none", reason |-> <<>>, msg |-> <<>>,
             progress |-> <<>>]
NoChecks == [schema |-> TRUE, root |-> TRUE, toml |-> TRUE, parses |-> TRUE,
             manifest |-> TRUE, testFolder |-> TRUE]
NoName == <<>>
NoCounts == [ok |-> 0, failed |-> 0]
NoDeps == [forge |-> <<>>, npm |-> <<>>, yarn |-> <<>>]
NoHist == [engineTouched |-> FALSE, cleaned |-> FALSE, rmCalls |-> 0,
           imageSeen |-> "unknown", buildSpawned |-> FALSE, lookedUp |-> FALSE,
           startFailed |-> FALSE, started |-> FALSE, installFailed |-> FALSE,
           testStarted |-> FALSE,
           timedOut |-> FALSE, timeoutAt |-> 0, handleAtTimeout |-> NoContainer,
           rmGone |-> FALSE, buildCalls |-> 0, creates |-> 0, testCalls |-> 0,
           hostWrites |-> FALSE, noExitCode |-> FALSE, forwarded |-> {},
           mcpFiles |-> [configured |-> FALSE, env |-> FALSE, files |-> <<>>],
           descriptor |-> 0, progressLogs |-> <<>>,
           timerArmed |-> FALSE, lateHandlers |-> FALSE, settled |-> "pending"]

\* ---------------------------------------------------------- pure functions
\* A manifest section: absent, a list of names, or a name -> version mapping
\* (kept as a sequence of <<name, version>> in entry order); "bad" is a value
\* of any other type.
AbsentSection == [form |-> "absent", items |-> <<>>]
ListSection(items) == [form |-> "list", items |-> items]
MapSection(entries) == [form |-> "map", items |-> entries]
BadSection == [form |-> "bad", items |-> <<>>]

\* A normalizeDependencies that gives the elements of a list section the
\* version "latest".
normalizeDependenciesLatest(sec) ==
  CASE sec.form = "absent" -> <<>>
    [] sec.form = "list" -> [i \in 1..Len(sec.items) |-> <<sec.items[i], "@", "latest">>]
    [] sec.form = "map" ->
         [i \in 1..Len(sec.items) |-> <<sec.items[i][1], "@", sec.items[i][2]>>]
    [] OTHER -> <<>>

\* normalizeDependencies: a list is returned as it is; a mapping entry becomes
\* the token `${packageName}@${version}`.  A token is the sequence of its parts.
normalizeDependencies(sec) ==
  CASE sec.form = "absent" -> <<>>
    [] sec.form = "list" -> [i \in 1..Len(sec.items) |-> <<sec.items[i]>>]
    [] sec.form = "map" ->
         [i \in 1..Len(sec.items) |-> <<sec.items[i][1], "@", sec.items[i][2]>>]
    [] OTHER -> <<>>

\* readDependenciesManifest: TRUE iff it returns (does not throw).
manifestReadable(m) ==
  /\ m.exists
  /\ m.json
  /\ m.forge.form # "bad" /\ m.npm.form # "bad" /\ m.yarn.form # "bad"
  /\ ~ ( /\ Len(normalizeDependencies(m.forge)) = 0
         /\ Len(normalizeDependencies(m.npm)) = 0
         /\ Len(normalizeDependencies(m.yarn)) = 0 )

readDependenciesManifest(m) ==
  [forge |-> normalizeDependencies(m.forge),
   npm |-> normalizeDependencies(m.npm),
   yarn |-> normalizeDependencies(m.yarn)]

\* What each input check of runTest finds for the arguments a.
InputFacts(a) ==
  [schema |-> a.schema, root |-> a.rootExists, toml |-> a.tomlExists,
   parses |-> a.tomlParses, manifest |-> manifestReadable(a.manifest),
   testFolder |-> a.testFolderExists]

\* The input checks without the test folder check.
ValidationErrorNoTestFolder(c) ==
  CASE ~c.schema -> "schema"
    [] ~c.root -> "root_not_found"
    [] ~c.toml -> "toml_not_found"
    [] ~c.parses -> "toml_parse"
    [] ~c.manifest -> "manifest"
    [] OTHER -> "none"

\* The checks are made in this order and the first failing one decides the
\* early return ("none": all passed; "schema": ForgeTestArgsSchema.parse throws).
ValidationError(c) ==
  CASE ~c.schema -> "schema"
    [] ~c.root -> "root_not_found"
    [] ~c.toml -> "toml_not_found"
    [] ~c.parses -> "toml_parse"
    [] ~c.manifest -> "manifest"
    [] ~c.testFolder -> "test_folder_not_found"
    [] OTHER -> "none"

\* Error messages, as word sequences.
ErrorText(kind) ==
  CASE kind = "root_not_found" -> <<"Project root directory not found">>
    [] kind = "toml_not_found" -> <<"foundry.toml not found">>
    [] kind = "toml_parse" -> <<"foundry.toml parse error">>
    [] kind = "manifest" -> <<"Dependencies manifest error">>
    [] kind = "test_folder_not_found" -> <<"Test folder not found">>
    [] kind = "docker_unavailable" -> <<"Docker is not available">>
    [] kind = "image_inspect" -> <<"image inspect error">>
    [] kind = "no_descriptor" -> <<"Docker image not found and cannot auto-build">>
    [] kind = "compose_missing" -> <<"Neither docker compose nor docker-compose is available">>
    [] kind = "build_failed" -> <<"docker-compose build failed">>
    [] kind = "create_failed" -> <<"Failed to create and start container", "create">>
    [] kind = "start_failed" -> <<"Failed to create and start container", "start">>
    [] kind = "inspect_failed" -> <<"Failed to create and start container", "inspect">>
    [] kind = "not_running" ->
         <<"Failed to create and start container", "Container created but is not running">>
    [] kind = "exec_error" -> <<"exec error">>
    [] kind = "timeout" -> <<"Command execution", "timeout", "after", "600000ms">>
    [] kind = "stream_error" -> <<"Stream error">>
    [] kind = "exec_inspect_failed" -> <<"Failed to inspect exec">>
    [] OTHER -> <<>>

\* runTest, catch block and early returns: `FAIL. Error: ${message}`.
ErrorReport(kind) ==
  [form |-> "error", status |-> "FAIL", reason |-> <<>>,
   msg |-> <<"FAIL. Error:">> \o ErrorText(kind), progress |-> <<>>]

\* formattedOutput = stdout, then "\n\nSTDERR:\n" + stderr when stderr is not empty.
FormattedOutput(res) ==
  IF res.stderr # <<>>
    THEN res.stdout \o <<"\n", "\n", "STDERR:", "\n">> \o res.stderr
    ELSE res.stdout

\* formattedOutput.match(/(Error|Failed|Revert|...)[^\n]*/): the leftmost
\* keyword and the rest of its line; <<>> when nothing matches.
ErrorMatch(out) ==
  LET hits == {i \in 1..Len(out) : out[i] \in Keywords}
  IN IF hits = {} THEN <<>>
     ELSE LET first == CHOOSE i \in hits : \A j \in hits : i <= j
              breaks == {j \in first..Len(out) : out[j] = "\n"}
              last == IF breaks = {} THEN Len(out)
                      ELSE (CHOOSE j \in breaks : \A k \in breaks : j <= k) - 1
          IN SubSeq(out, first, last)

\* A success test that takes the missing exit code (-1) for a success.
isSuccessNonPositive(exitCode) == exitCode <= 0

isSuccess(exitCode) == exitCode = 0

Status(exitCode) == IF isSuccess(exitCode) THEN "PASS" ELSE "FAIL"

Reason(res) ==
  IF isSuccess(res.exitCode) THEN <<>>
  ELSE IF ErrorMatch(FormattedOutput(res)) # <<>>
         THEN ErrorMatch(FormattedOutput(res))
         ELSE GenericReason

\* The verdict, the reason and the output of the success report (its
\* progress section is filled in by ResultText).
VerdictReport(res) ==
  [form |-> "verdict", status |-> Status(res.exitCode), reason |-> Reason(res),
   msg |-> FormattedOutput(res), progress |-> <<>>]

\* progressSummary: the entries of progressLogs, numbered from 1, in order.
ProgressSummary(progressLogs) ==
  [i \in 1..Len(progressLogs) |-> <<i, progressLogs[i]>>]

\* resultText of the success report: progress summary, verdict, output.
ResultText(res, progressLogs) ==
  [VerdictReport(res) EXCEPT !.progress = ProgressSummary(progressLogs)]

\* ------------------------------------------------------------------- paths
\* A path is absolute or relative and has segments: ".." or the name "d" of
\* the subdirectory a directory has.  "/" and "." have no segment.
Path(abs, segs) == [abs |-> abs, segs |-> segs]
Dot == Path(FALSE, <<>>)
ConfigName == "foundry.toml"

\* path.dirname: "/" and "." are their own parents, and the parent of a
\* one-segment relative path (also of "..") is ".".
dirname(p) ==
  IF p.segs = <<>> THEN p ELSE Path(p.abs, SubSeq(p.segs, 1, Len(p.segs) - 1))

\* path.join(p, name).
join(p, name) == Path(p.abs, Append(p.segs, name))

\* The level reached from level n along segs (".." at the root stays there).
RECURSIVE Climb(_, _)
Climb(n, segs) ==
  IF segs = <<>> THEN n
  ELSE Climb(IF Head(segs) = ".." THEN (IF n > 0 THEN n - 1 ELSE 0) ELSE n + 1,
             Tail(segs))

\* The level of what path p denotes; a relative path starts at process.cwd().
LevelOf(fs, p) == Climb(IF p.abs THEN 0 ELSE fs.cwd, p.segs)

\* path.resolve(p): the absolute, normalized path.
resolve(fs, p) == Path(TRUE, [i \in 1..LevelOf(fs, p) |-> "d"])

\* fs.stat(p) of a directory path: the levels 0..fs.depth exist, the deepest
\* one being a directory or a plain file.
statPath(fs, p) ==
  LET n == LevelOf(fs, p)
  IN IF n > fs.depth THEN "missing"
     ELSE IF n = fs.depth /\ fs.leaf = "file" THEN "file"
     ELSE "dir"

\* fs.stat(path.join(dir, "foundry.toml")): "file", "dir" or "missing".
statConfig(fs, dir) ==
  IF statPath(fs, dir) # "dir" THEN "missing" ELSE fs.toml[LevelOf(fs, dir)]

NoRoot == [status |-> "none", projectRoot |-> Dot, configPath |-> Dot]
RootError(kind) == [status |-> kind, projectRoot |-> Dot, configPath |-> Dot]

\* The while loop of findFoundryProjectRoot.
RECURSIVE Walk(_, _)
Walk(fs, currentDir) ==
  IF statConfig(fs, currentDir) = "file"
    THEN [status |-> "ok", projectRoot |-> currentDir,
          configPath |-> join(currentDir, ConfigName)]
  ELSE IF dirname(currentDir) = currentDir THEN RootError("not_found")
  ELSE Walk(fs, dirname(currentDir))

\* A search that does not stat its start directory.
findFoundryProjectRootNoStat(fs, startDir) == Walk(fs, startDir)

findFoundryProjectRoot(fs, startDir) ==
  IF statPath(fs, startDir) # "dir" THEN RootError("not_a_directory")
  ELSE Walk(fs, startDir)

\* ------------------------------------------------------ the forge arguments
\* An array: its identity and its items.
Array(id, items) == [id |-> id, items |-> items]
NoArray == Array("none", <<>>)
ConfigFlag == "--config-path"
ConfigFlagForms == {"--config-path", "--config-path=/custom/config.toml"}

\* buildContainerPath(containerWorkdir, projectRoot, configPath): the config
\* file lies in the mounted root, so it is the work directory's foundry.toml.
ContainerConfigPath == "/workspace/foundry.toml"

hasConfigArg(items) == \E i \in 1..Len(items) : items[i] \in ConfigFlagForms

\* An ensureConfigPathArg that pushes onto its argument.
ensureConfigPathArgPush(args, containerConfigPath) ==
  LET pushed == Array(args.id, args.items \o <<ConfigFlag, containerConfigPath>>)
  IN IF hasConfigArg(args.items) THEN [input |-> args, result |-> args]
     ELSE [input |-> pushed, result |-> pushed]

\* ensureConfigPathArg: the array it was given as it is after the call, and
\* the array it returns (the given one, or a new one).
ensureConfigPathArg(args, containerConfigPath) ==
  IF hasConfigArg(args.items) THEN [input |-> args, result |-> args]
  ELSE [input |-> args,
        result |-> Array("copy", args.items \o <<ConfigFlag, containerConfigPath>>)]

\* ------------------------------------------------- findMcpProjectPath
\* The candidate locations in the order the code tries them.
Candidates ==
  <<"mcpProjectPath/docker", "mcpProjectPath", "env/docker", "env", "dist/docker",
    "cwd/docker", "dist/../docker", "dist/../../docker", "dist", "dist/..">>

\* No location was returned (null).
NoPath == 0

\* What a candidate location holds: nothing, Dockerfile.foundry only,
\* docker-compose.yml only, or both.
Contents == {"none", "dockerfile", "compose", "both"}

\* Whether candidate i is tried at all: the first two only when
\* this.mcpProjectPath is set, the next two only when FOUNDRY_MCP_PROJECT_PATH is.
Tried(l, i) ==
  /\ Candidates[i] \in {"mcpProjectPath/docker", "mcpProjectPath"} => l.configured
  /\ Candidates[i] \in {"env/docker", "env"} => l.env

\* The first candidate from i on that is tried and whose contents are accepted.
RECURSIVE FirstWith(_, _, _)
FirstWith(l, i, accepted) ==
  IF i > Len(Candidates) THEN NoPath
  ELSE IF Tried(l, i) /\ l.files[i] \in accepted THEN i
  ELSE FirstWith(l, i + 1, accepted)

\* A search that is content with Dockerfile.foundry alone.
findMcpProjectPathDockerfile(l) == FirstWith(l, 1, {"dockerfile", "both"})

\* findMcpProjectPath: existsSync(Dockerfile.foundry) && existsSync(docker-compose.yml)
\* at each candidate in turn; the index of the location returned, or NoPath.
findMcpProjectPath(l) == FirstWith(l, 1, {"both"})

\* ------------------------------------------------------------------ inputs
ForgeSections ==
  {AbsentSection, ListSection(<<>>), ListSection(<<"a/b">>),
   ListSection(<<"a/b", "c/d">>), MapSection(<< <<"a/b", "latest">> >>),
   BadSection}
NpmSections == {AbsentSection, MapSection(<< <<"pkg", "^5.0.2">> >>)}
YarnSections == {AbsentSection, ListSection(<<"ypkg">>)}

Manifest(e, j, f, n, y) == [exists |-> e, json |-> j, forge |-> f, npm |-> n, yarn |-> y]

Manifests(c) ==
  IF c \in {"conc", "live", "mcp", "exec"}
    THEN {Manifest(FALSE, TRUE, AbsentSection, AbsentSection, AbsentSection),
          Manifest(TRUE, TRUE, ListSection(<<"a/b">>), ListSection(<<"pkg">>),
                   ListSection(<<"ypkg">>))}
    ELSE {Manifest(FALSE, TRUE, AbsentSection, AbsentSection, AbsentSection),
          Manifest(TRUE, FALSE, AbsentSection, AbsentSection, AbsentSection)}
         \cup {Manifest(TRUE, TRUE, f, n, y) :
                 f \in ForgeSections, n \in NpmSections, y \in YarnSections}

\* The arguments and the files a runTest invocation may find.  foundry.toml lies
\* in the project root, so it exists only if the root does.
Args(c) ==
  {a \in [schema : BOOLEAN, rootExists : BOOLEAN, tomlExists : BOOLEAN,
          tomlParses : BOOLEAN, manifest : Manifests(c),
          testFolderExists : BOOLEAN,
          libs : IF c \in {"conc", "live", "mcp", "exec"} THEN {1} ELSE {1, 2}] :
     /\ a.tomlExists => a.rootExists
     /\ a.tomlParses => a.tomlExists}

Slots(c) == IF c = "conc" THEN Runs ELSE {1}
Alphabet(c) == IF c \in {"conc", "live", "mcp", "exec"} THEN {"ok"} ELSE ChunkAlphabet

\* The build files at the candidate locations, with whether a path was
\* configured and whether the environment variable is set.
NoFiles == [i \in 1..Len(Candidates) |-> "none"]
FilesOn(S) ==
  {[i \in 1..Len(Candidates) |-> IF i \in S THEN h[i] ELSE "none"] :
     h \in [S -> Contents \ {"none"}]}
Layout(c, e, f) == [configured |-> c, env |-> e, files |-> f]
Layouts(c) ==
  IF c = "mcp"
    THEN {Layout(k, e, f) :
            k \in BOOLEAN, e \in BOOLEAN,
            f \in UNION {FilesOn(S) : S \in {T \in SUBSET (1..Len(Candidates)) :
                                               Cardinality(T) <= MaxOccupied}}}
    ELSE {Layout(FALSE, FALSE, NoFiles),
          Layout(FALSE, FALSE, [NoFiles EXCEPT ![5] = "both"])}

\* The file systems a call may find.  A call of runForgeInDocker is tried on
\* full-depth trees seen from the root; findFoundryProjectRoot on every tree.
Filesystems(c) ==
  {f \in [toml : [0..MaxDepth -> (IF c = "forge" THEN {"missing", "file"}
                                  ELSE {"missing", "file", "dir"})],
          depth : IF c = "forge" THEN {MaxDepth} ELSE 0..MaxDepth,
          leaf : {"dir", "file"},
          cwd : IF c = "forge" THEN {0} ELSE 0..MaxDepth] :
     /\ f.cwd <= f.depth
     /\ f.leaf = "file" => f.cwd < f.depth}

\* Normalized paths of at most MaxDepth segments: "d" segments from the root,
\* or ".." segments followed by "d" segments from the working directory.
Segs(u, k) == [i \in 1..(u + k) |-> IF i <= u THEN ".." ELSE "d"]
AbsolutePaths == {Path(TRUE, Segs(0, k)) : k \in 0..MaxDepth}
RelativePaths == {Path(FALSE, Segs(u, k)) : u \in 0..MaxDepth, k \in 0..MaxDepth} \ {Dot}
ProjectPaths(c) ==
  IF c = "forge" THEN AbsolutePaths \cup {Path(FALSE, Segs(0, 1))}
  ELSE IF c = "lock" THEN {Path(TRUE, Segs(0, 0))}
  ELSE {q \in AbsolutePaths \cup RelativePaths \cup {Dot} : Len(q.segs) <= MaxDepth}

\* The forge argument arrays a caller may pass.
ArgItems == {"test", "--config-path", "--config-path=/custom/config.toml", "/custom/config.toml"}
ArgLists(c) ==
  IF c \in {"forge", "lock"} THEN {Array("forgeArgs", <<"build">>)}
  ELSE {Array("forgeArgs", items) : items \in UNION {[1..n -> ArgItems] : n \in 0..2}}

NoFilesystem == [toml |-> [n \in 0..MaxDepth |-> "missing"], depth |-> 0, leaf |-> "dir",
                 cwd |-> 0]

\* -------------------------------------------------------------------- Init
InitRuns ==
  /\ runsStarted = 0
  /\ pc = [r \in Runs |-> "idle"]
  /\ xpc = [r \in Runs |-> "none"]
  /\ checks = [r \in Runs |-> NoChecks]
  /\ deps = [r \in Runs |-> NoDeps]
  /\ prune = [r \in Runs |-> FALSE]
  /\ libs = [r \in Runs |-> 0]
  /\ containerId = [r \in Runs |-> NoContainer]
  /\ cobj = [r \in Runs |-> NoContainer]
  /\ mine = [r \in Runs |-> {}]
  /\ err = [r \in Runs |-> "none"]
  /\ result = [r \in Runs |-> NoResult]
  /\ report = [r \in Runs |-> NoReport]
  /\ clock = [r \in Runs |-> 0]
  /\ streamOpen = [r \in Runs |-> FALSE]
  /\ idx = [r \in Runs |-> 0]
  /\ counts = [r \in Runs |-> NoCounts]
  /\ hist = [r \in Runs |-> NoHist]
  /\ given = [r \in Runs |-> AbsentSection]
  /\ containerName = [r \in Runs |-> NoName]

InitEngine ==
  /\ imagePresent \in BOOLEAN
  /\ containers = <<>>
  /\ nextId = 1
  /\ ghost = [builds |-> 0, imageAtStart |-> imagePresent]

NoForgeHist == [inspected |-> FALSE, presentAtInspect |-> FALSE, buildSpawned |-> FALSE,
                rmiSpawned |-> FALSE]

\* No call of runForgeInDocker has been made; the module-level lock is the
\* resolved promise.
InitForgeCalls ==
  /\ dockerLifecycleLock = NoCall
  /\ previous = [c \in Runs |-> NoCall]
  /\ released = {}
  /\ fpc = [c \in Runs |-> "idle"]
  /\ imageBuilt = [c \in Runs |-> FALSE]
  /\ forgeResult = [c \in Runs |-> "none"]
  /\ fhist = [c \in Runs |-> NoForgeHist]

\* No call has read a path or built its arguments.
InitCallInputs ==
  /\ projectPath = [c \in Runs |-> Dot]
  /\ rootResult = [c \in Runs |-> NoRoot]
  /\ forgeArgs = [c \in Runs |-> NoArray]
  /\ forgeArgsWithConfig = [c \in Runs |-> NoArray]

InitPaths == fsys = NoFilesystem /\ InitCallInputs

EnvDefault == [autoBuild |-> TRUE, cleanupImage |-> TRUE]

Init ==
  /\ cfg = "seq" /\ InitEngine /\ InitRuns /\ InitForgeCalls /\ InitPaths
  /\ fenv = EnvDefault

InitConc ==
  /\ cfg = "conc" /\ InitEngine /\ InitRuns /\ InitForgeCalls /\ InitPaths
  /\ fenv = EnvDefault

InitForge ==
  /\ cfg = "forge"
  /\ InitEngine /\ InitRuns /\ InitForgeCalls /\ InitCallInputs
  /\ fsys \in Filesystems(cfg)
  /\ fenv \in [autoBuild : BOOLEAN, cleanupImage : BOOLEAN]

\* For the lock alone: the calls are made on the root directory, which holds
\* foundry.toml or does not.
InitForgeLive ==
  /\ cfg = "lock"
  /\ InitEngine /\ InitRuns /\ InitForgeCalls /\ InitCallInputs
  /\ fsys \in {f \in Filesystems("forge") :
                 f.leaf = "dir" /\ \A n \in 1..MaxDepth : f.toml[n] = "missing"}
  /\ fenv \in [autoBuild : BOOLEAN, cleanupImage : BOOLEAN]

\* ------------------------------------------------- runTest: input validation
Note(r, field, value) == [hist EXCEPT ![r][field] = value]

\* progressLogs.push(entry), for each of `entries` in turn, recorded in h.
Push(r, h, entries) == [h EXCEPT ![r].progressLogs = @ \o entries]

\* runTest up to the first awaited call: schema parse, the existence checks,
\* foundry.toml, the manifest, the test folder, new DockerManager.
Validate(r) ==
  /\ pc[r] = "idle"
  /\ r \in Slots(cfg)
  /\ runsStarted < MaxRuns
  /\ runsStarted' = runsStarted + 1
  /\ \E a \in Args(cfg) :
       LET facts == InputFacts(a)
           ve == ValidationError(facts)
       IN /\ checks' = [checks EXCEPT ![r] = facts]
          /\ IF ve = "schema"
               THEN /\ pc' = [pc EXCEPT ![r] = "rejected"]
                    /\ UNCHANGED <<report, deps, libs, hist>>
             ELSE IF ve # "none"
               THEN /\ pc' = [pc EXCEPT ![r] = "done"]
                    /\ report' = [report EXCEPT ![r] = ErrorReport(ve)]
                    /\ UNCHANGED <<deps, libs, hist>>
             ELSE /\ pc' = [pc EXCEPT ![r] = "ping"]
                  /\ deps' = [deps EXCEPT ![r] = readDependenciesManifest(a.manifest)]
                  /\ libs' = [libs EXCEPT ![r] = a.libs]
                  /\ hist' = Push(r, hist, <<"step1Start">>)
                  /\ UNCHANGED <<report, prune>>
  /\ UNCHANGED <<forgeVars, given, containerName, ghost, cfg, engineVars, execVars, prune, containerId,
                 cobj, mine, err, result, idx, counts>>

\* The caller invokes runTest again: a fresh invocation with fresh locals and a
\* fresh DockerManager.
NewRun(r) ==
  /\ pc[r] \in {"done", "rejected"}
  /\ runsStarted < MaxRuns
  /\ pc' = [pc EXCEPT ![r] = "idle"]
  /\ xpc' = [xpc EXCEPT ![r] = "none"]
  /\ checks' = [checks EXCEPT ![r] = NoChecks]
  /\ deps' = [deps EXCEPT ![r] = NoDeps]
  /\ prune' = [prune EXCEPT ![r] = FALSE]
  /\ libs' = [libs EXCEPT ![r] = 0]
  /\ containerId' = [containerId EXCEPT ![r] = NoContainer]
  /\ cobj' = [cobj EXCEPT ![r] = NoContainer]
  /\ mine' = [mine EXCEPT ![r] = {}]
  /\ err' = [err EXCEPT ![r] = "none"]
  /\ result' = [result EXCEPT ![r] = NoResult]
  /\ report' = [report EXCEPT ![r] = NoReport]
  /\ clock' = [clock EXCEPT ![r] = 0]
  /\ streamOpen' = [streamOpen EXCEPT ![r] = FALSE]
  /\ idx' = [idx EXCEPT ![r] = 0]
  /\ counts' = [counts EXCEPT ![r] = NoCounts]
  /\ hist' = [hist EXCEPT ![r] = NoHist]
  /\ UNCHANGED <<forgeVars, given, containerName, ghost, cfg, engineVars, runsStarted>>

\* --------------------------------------------------------- runTest: catch
\* The catch block of runTest: dockerManager was constructed as the first
\* statement of the try block, so `if (dockerManager)` holds and
\* removeContainer is called before the failure report is built.
\* A catch block that builds the failure report without calling removeContainer.
CatchTargetSkip == "report"

CatchTarget == "cleanup"

\* An awaited step of the try block rejects with error `kind`.
Throw(r, kind) ==
  /\ err' = [err EXCEPT ![r] = kind]
  /\ pc' = [pc EXCEPT ![r] = CatchTarget]

\* ---------------------------------------- DockerManager: image provisioning
\* ensureDockerAvailable: docker.ping().
Ping(r) ==
  /\ pc[r] = "ping"
  /\ hist' = Note(r, "engineTouched", TRUE)
  /\ \E ok \in BOOLEAN :
       IF ok THEN pc' = [pc EXCEPT ![r] = "imgInspect"] /\ UNCHANGED err
             ELSE Throw(r, "docker_unavailable")
  /\ UNCHANGED <<forgeVars, given, containerName, ghost, cfg, engineVars, runsStarted, execVars,
                 inputVars, prune, containerId, cobj, mine, result, report, idx, counts>>

\* An ensureImageExists that goes on to the container creation when the image
\* inspect failed for a reason other than a missing image.
AfterImageInspectLenient(seen, found, compose) ==
  CASE seen \in {"present", "error"} -> <<"create", "none", FALSE, FALSE>>
    [] OTHER ->
         IF ~found THEN <<"catch", "no_descriptor", TRUE, FALSE>>
         ELSE IF ~compose THEN <<"catch", "compose_missing", TRUE, FALSE>>
         ELSE <<"building", "none", TRUE, TRUE>>

\* What the code does once getImage(tag).inspect() has settled: "present" (the
\* inspect resolved), "absent" (it rejected with 404 / No such image) or
\* "error" (it rejected otherwise).  Returns <<next pc, error, looked up, spawned>>
\* where `found` says whether findMcpProjectPath returns a directory and
\* `compose` whether getComposeCommand finds a compose command.
AfterImageInspect(seen, found, compose) ==
  CASE seen = "present" -> <<"create", "none", FALSE, FALSE>>
    [] seen = "error" -> <<"catch", "image_inspect", FALSE, FALSE>>
    [] OTHER ->
         IF ~found THEN <<"catch", "no_descriptor", TRUE, FALSE>>
         ELSE IF ~compose THEN <<"catch", "compose_missing", TRUE, FALSE>>
         ELSE <<"building", "none", TRUE, TRUE>>

\* The layouts a manager made by `new DockerManager(projectRoot, undefined,
\* libs)` can see: the constructor takes the environment variable's path as
\* the configured path, so that both name the same two locations.
Constructed(c) ==
  {l \in Layouts(c) :
     IF l.env THEN /\ l.configured
                   /\ l.files[1] = l.files[3]
                   /\ l.files[2] = l.files[4]
              ELSE ~l.configured}

\* ensureImageExists: the inspect call and, without a further await, the
\* descriptor lookup and the spawn of the compose build.  The files on disk
\* are remembered when the lookup reads them (and, where the search is
\* studied on its own, for every run).
ImageInspect(r) ==
  /\ pc[r] = "imgInspect"
  /\ \E seen \in {IF imagePresent THEN "present" ELSE "absent", "error"},
        l \in Constructed(cfg), compose \in BOOLEAN :
       LET mcpProjectPath == findMcpProjectPath(l)
           next == AfterImageInspect(seen, mcpProjectPath # NoPath, compose)
       IN /\ hist' = [hist EXCEPT ![r].imageSeen = seen,
                                  ![r].lookedUp = next[3],
                                  ![r].mcpFiles = IF next[3] \/ cfg = "mcp" THEN l ELSE @,
                                  ![r].descriptor = IF next[3] THEN mcpProjectPath ELSE @,
                                  ![r].buildSpawned = next[4],
                                  ![r].buildCalls = IF next[4] THEN @ + 1 ELSE @]
          /\ ghost' = [ghost EXCEPT !.builds = IF next[4] THEN @ + 1 ELSE @]
          /\ IF next[1] = "catch"
               THEN Throw(r, next[2])
               ELSE pc' = [pc EXCEPT ![r] = next[1]] /\ UNCHANGED err
  /\ UNCHANGED <<forgeVars, given, containerName, cfg, engineVars, runsStarted, execVars, inputVars,
                 prune, containerId, cobj, mine, result, report, idx, counts>>

\* buildImageWithCompose: the compose subprocess closes (code 0: the image is
\* built) or fails (non-zero code, or the 'error' event).
BuildClose(r) ==
  /\ pc[r] = "building"
  /\ \E ok \in BOOLEAN :
       IF ok THEN /\ imagePresent' = TRUE
                  /\ pc' = [pc EXCEPT ![r] = "create"]
                  /\ UNCHANGED err
             ELSE /\ Throw(r, "build_failed")
                  /\ UNCHANGED imagePresent
  /\ UNCHANGED <<forgeVars, given, containerName, ghost, cfg, containers, nextId, runsStarted, execVars,
                 inputVars, prune, containerId, cobj, mine, result, report, idx, counts,
                 hist>>

\* ------------------------------------- DockerManager: createAndStartContainer
Exists(c) == c \in DOMAIN containers
Put(c, st) == [x \in DOMAIN containers \cup {c} |-> IF x = c THEN st ELSE containers[x]]
Drop(cs) == [x \in DOMAIN containers \ cs |-> containers[x]]

\* docker.createContainer(...).
CreateContainer(r) ==
  /\ pc[r] = "create"
  /\ \E ok \in BOOLEAN :
       IF ok THEN /\ containers' = Put(nextId, "created")
                  /\ nextId' = nextId + 1
                  /\ cobj' = [cobj EXCEPT ![r] = nextId]
                  /\ mine' = [mine EXCEPT ![r] = @ \cup {nextId}]
                  /\ pc' = [pc EXCEPT ![r] = "start"]
                  /\ UNCHANGED err
             ELSE /\ Throw(r, "create_failed")
                  /\ UNCHANGED <<containers, nextId, cobj, mine>>
  /\ hist' = [hist EXCEPT ![r].creates = @ + 1]
  /\ UNCHANGED <<forgeVars, given, containerName, ghost, cfg, imagePresent, runsStarted, execVars,
                 inputVars, prune, containerId, result, report, idx, counts>>

\* container.start(): the container runs, or it starts and exits at once, or
\* the call rejects and the container stays created.
StartContainer(r) ==
  /\ pc[r] = "start"
  /\ \E out \in (IF Exists(cobj[r]) THEN {"running", "exited"} ELSE {}) \cup {"error"} :
       IF out = "error"
         THEN /\ Throw(r, "start_failed")
              /\ hist' = Note(r, "startFailed", TRUE)
              /\ UNCHANGED containers
         ELSE /\ containers' = Put(cobj[r], out)
              /\ pc' = [pc EXCEPT ![r] = "postInspect"]
              /\ UNCHANGED <<err, hist>>
  /\ UNCHANGED <<forgeVars, given, containerName, ghost, cfg, imagePresent, nextId, runsStarted,
                 execVars, inputVars, prune, containerId, cobj, mine, result, report,
                 idx, counts>>

\* A post-start inspect whose State.Running is not looked at: the handle is set
\* as soon as the inspect call returns.
PostInspectNoCheck(r) ==
  /\ pc[r] = "postInspect"
  /\ \E ok \in (IF Exists(cobj[r]) THEN {TRUE} ELSE {}) \cup {FALSE} :
       IF ~ok
         THEN /\ Throw(r, "inspect_failed")
              /\ UNCHANGED <<containerId, hist>>
       ELSE /\ containerId' = [containerId EXCEPT ![r] = cobj[r]]
            /\ pc' = [pc EXCEPT ![r] = "install"]
            /\ hist' = Push(r, Note(r, "started", TRUE), <<"step1Complete", "step2Start">>)
            /\ UNCHANGED err
  /\ UNCHANGED <<forgeVars, given, containerName, ghost, cfg, engineVars, runsStarted, execVars,
                 inputVars, prune, cobj, mine, result, report, idx, counts>>

\* After the 1000 ms wait: container.inspect(); the handle is set only when
\* info.State.Running.
PostInspect(r) ==
  /\ pc[r] = "postInspect"
  /\ \E ok \in (IF Exists(cobj[r]) THEN {TRUE} ELSE {}) \cup {FALSE} :
       IF ~ok
         THEN /\ Throw(r, "inspect_failed")
              /\ UNCHANGED <<containerId, hist>>
       ELSE IF containers[cobj[r]] # "running"
         THEN /\ Throw(r, "not_running")
              /\ hist' = Note(r, "startFailed", TRUE)
              /\ UNCHANGED containerId
       ELSE /\ containerId' = [containerId EXCEPT ![r] = cobj[r]]
            /\ pc' = [pc EXCEPT ![r] = "install"]
            /\ hist' = Push(r, Note(r, "started", TRUE), <<"step1Complete", "step2Start">>)
            /\ UNCHANGED err
  /\ UNCHANGED <<forgeVars, given, containerName, ghost, cfg, engineVars, runsStarted, execVars,
                 inputVars, prune, cobj, mine, result, report, idx, counts>>

\* ------------------------- DockerManager: installDependenciesFromManifest
ExecSteps == {"mkdir", "projPkg", "projMods", "projWhich", "projInstall",
              "npmWhich", "npmInstall", "yarnWhich", "yarnAdd", "forge", "test"}

\* The stage that follows the yarn, npm and project-npm stages.
AfterYarn(d) == IF Len(d.forge) > 0 THEN "forge" ELSE "installed"
AfterNpm(d) == IF Len(d.yarn) > 0 THEN "yarnWhich" ELSE AfterYarn(d)
AfterProj(d) == IF Len(d.npm) > 0 THEN "npmWhich" ELSE AfterNpm(d)

\* The argument vector of the install command issued at `step` (d: the
\* dependency lists, i: the index of the forge dependency).
InstallCmd(step, d, i) ==
  CASE step = "projInstall" -> <<"npm", "install", "--legacy-peer-deps">>
    [] step = "npmInstall" -> <<"npm", "install", "--legacy-peer-deps">> \o d.npm
    [] step = "yarnAdd" -> <<"yarn", "add">> \o d.yarn
    [] step = "forge" ->
         <<"forge", "install", "--root", "/workspace", "--no-git", d.forge[i]>>
    [] OTHER -> <<>>

\* An install that goes on to the project's npm install after the first libs
\* directory.
OnResolveOneDir(step, code, d, i, n) ==
  CASE step = "mkdir" -> "projPkg"
    [] step = "projPkg" -> IF code # 0 THEN AfterProj(d) ELSE "projMods"
    [] step = "projMods" -> IF code = 0 THEN AfterProj(d) ELSE "projWhich"
    [] step = "projWhich" -> IF code # 0 THEN AfterProj(d) ELSE "projInstall"
    [] step = "projInstall" -> AfterProj(d)
    [] step = "npmWhich" -> IF code # 0 THEN AfterNpm(d) ELSE "npmInstall"
    [] step = "npmInstall" -> AfterNpm(d)
    [] step = "yarnWhich" -> IF code # 0 THEN AfterYarn(d) ELSE "yarnAdd"
    [] step = "yarnAdd" -> AfterYarn(d)
    [] step = "forge" -> IF i < Len(d.forge) THEN "forge" ELSE "installed"
    [] OTHER -> "cleanup"

\* Where the code continues when the exec of `step` resolved with exit code
\* `code` (d: the dependency lists, i: the loop index, n: the number of libs
\* directories).
OnResolve(step, code, d, i, n) ==
  CASE step = "mkdir" -> IF i < n THEN "mkdir" ELSE "projPkg"
    [] step = "projPkg" -> IF code # 0 THEN AfterProj(d) ELSE "projMods"
    [] step = "projMods" -> IF code = 0 THEN AfterProj(d) ELSE "projWhich"
    [] step = "projWhich" -> IF code # 0 THEN AfterProj(d) ELSE "projInstall"
    [] step = "projInstall" -> AfterProj(d)
    [] step = "npmWhich" -> IF code # 0 THEN AfterNpm(d) ELSE "npmInstall"
    [] step = "npmInstall" -> AfterNpm(d)
    [] step = "yarnWhich" -> IF code # 0 THEN AfterYarn(d) ELSE "yarnAdd"
    [] step = "yarnAdd" -> AfterYarn(d)
    [] step = "forge" -> IF i < Len(d.forge) THEN "forge" ELSE "installed"
    [] OTHER -> "cleanup"

\* An install whose forge loop and mkdir loop let a rejected exec escape.
OnRejectRethrow(step, d) ==
  CASE step \in {"projPkg", "projMods", "projWhich", "projInstall"} -> AfterProj(d)
    [] step \in {"npmWhich", "npmInstall"} -> AfterNpm(d)
    [] step \in {"yarnWhich", "yarnAdd"} -> AfterYarn(d)
    [] OTHER -> "catch"

\* An install and a test step that run the test command again when it rejected.
OnRejectRetryTest(step, d) ==
  CASE step \in {"mkdir", "forge"} -> "installed"
    [] step \in {"projPkg", "projMods", "projWhich", "projInstall"} -> AfterProj(d)
    [] step \in {"npmWhich", "npmInstall"} -> AfterNpm(d)
    [] step \in {"yarnWhich", "yarnAdd"} -> AfterYarn(d)
    [] OTHER -> "test"

\* Where the code continues when the exec of `step` rejected (container.exec
\* or exec.start threw, timeout, stream error, exec inspect failure): the
\* try/catch of installNpmDependencies, installNpmPackages and
\* installYarnPackages, the outer try/catch of installDependenciesFromManifest,
\* and, for the test command, runTest's catch ("catch").
OnReject(step, d) ==
  CASE step \in {"mkdir", "forge"} -> "installed"
    [] step \in {"projPkg", "projMods", "projWhich", "projInstall"} -> AfterProj(d)
    [] step \in {"npmWhich", "npmInstall"} -> AfterNpm(d)
    [] step \in {"yarnWhich", "yarnAdd"} -> AfterYarn(d)
    [] OTHER -> "catch"

\* Control moves to `next`; the loop index and the exec position follow.
Goto(r, next) ==
  /\ pc' = [pc EXCEPT ![r] = next]
  /\ xpc' = [xpc EXCEPT ![r] = IF next \in ExecSteps THEN "create" ELSE "none"]
  /\ idx' = [idx EXCEPT ![r] = IF next \in {"mkdir", "forge"}
                                 THEN (IF next = pc[r] THEN @ + 1 ELSE 1)
                                 ELSE 0]
  /\ clock' = [clock EXCEPT ![r] = 0]

\* Entry of installDependenciesFromManifest: the handle and totalDeps guards.
InstallBegin(r) ==
  /\ pc[r] = "install"
  /\ IF containerId[r] = NoContainer
       THEN Throw(r, "exec_error") /\ UNCHANGED <<xpc, idx, clock>>
     ELSE IF Len(deps[r].forge) + Len(deps[r].npm) + Len(deps[r].yarn) = 0
       THEN Goto(r, "installed") /\ UNCHANGED err
     ELSE Goto(r, "mkdir") /\ UNCHANGED err
  /\ UNCHANGED <<forgeVars, given, containerName, ghost, cfg, engineVars, runsStarted, streamOpen,
                 inputVars, prune, containerId, cobj, mine, result, report, counts,
                 hist>>

\* The exec of step pc[r] resolved with exit code `code`.
Resolved(r, code) ==
  LET next == OnResolve(pc[r], code, deps[r], idx[r], libs[r])
  IN /\ Goto(r, next)
     /\ counts' = [counts EXCEPT ![r] =
                     IF pc[r] # "forge" THEN @
                     ELSE IF code = 0 THEN [@ EXCEPT !.ok = @ + 1]
                     ELSE [@ EXCEPT !.failed = @ + 1]]
     /\ result' = [result EXCEPT ![r] =
                     IF pc[r] = "test" THEN [@ EXCEPT !.exitCode = code, !.set = TRUE]
                     ELSE @]
     /\ UNCHANGED err

\* The exec of step pc[r] rejected with error `kind`.
Rejected(r, kind) ==
  LET next == OnReject(pc[r], deps[r])
  IN /\ IF next = "catch"
          THEN /\ Throw(r, kind)
               /\ xpc' = [xpc EXCEPT ![r] = "none"]
               /\ clock' = [clock EXCEPT ![r] = 0]
               /\ UNCHANGED idx
          ELSE Goto(r, next) /\ UNCHANGED err
     /\ UNCHANGED <<counts, result>>

\* A step 3 that hands the test command to execCommand while the install step
\* is still pending.
BeginTestEarly(r) ==
  /\ pc[r] \in ExecSteps \cup {"installed"} /\ pc[r] # "test"
  /\ containerId[r] # NoContainer
  /\ Goto(r, "test")
  /\ deps' = [deps EXCEPT ![r] = NoDeps]
  /\ libs' = [libs EXCEPT ![r] = 0]
  /\ counts' = [counts EXCEPT ![r] = NoCounts]
  /\ hist' = Push(r, Note(r, "testStarted", TRUE), <<"step2Complete", "step3Start">>)
  /\ UNCHANGED <<forgeVars, given, containerName, ghost, cfg, engineVars, runsStarted, streamOpen,
                 checks, prune, containerId, cobj, mine, err, result, report>>

\* Step 3 of runTest: the test command is handed to execCommand.
BeginTest(r) ==
  /\ pc[r] = "installed"
  /\ containerId[r] # NoContainer
  /\ Goto(r, "test")
  /\ deps' = [deps EXCEPT ![r] = NoDeps]
  /\ libs' = [libs EXCEPT ![r] = 0]
  /\ counts' = [counts EXCEPT ![r] = NoCounts]
  /\ hist' = Push(r, Note(r, "testStarted", TRUE), <<"step2Complete", "step3Start">>)
  /\ UNCHANGED <<forgeVars, given, containerName, ghost, cfg, engineVars, runsStarted, streamOpen,
                 checks, prune, containerId, cobj, mine, err, result, report>>

\* ------------------- DockerManager: execCommand and _captureStreamOutput
Running(c) == Exists(c) /\ containers[c] = "running"

\* container.exec(options): creates the exec instance, or throws.  (The
\* observation that an install step failed is kept until the exec of the test
\* command has been asked for.)
ExecCreate(r) ==
  /\ pc[r] \in ExecSteps /\ xpc[r] = "create"
  /\ \E ok \in (IF Running(containerId[r]) THEN {TRUE} ELSE {}) \cup {FALSE} :
       IF ok THEN /\ xpc' = [xpc EXCEPT ![r] = "start"]
                  /\ UNCHANGED <<pc, idx, clock, err, counts, result>>
                  /\ hist' = IF pc[r] = "test"
                               THEN [hist EXCEPT ![r].installFailed = FALSE,
                                                 ![r].testCalls = @ + 1]
                               ELSE hist
             ELSE /\ Rejected(r, "exec_error")
                  /\ hist' = [hist EXCEPT ![r].installFailed = pc[r] # "test",
                                          ![r].testCalls = IF pc[r] = "test" THEN @ + 1
                                                           ELSE @]
  /\ UNCHANGED <<forgeVars, given, containerName, ghost, cfg, engineVars, runsStarted, streamOpen,
                 inputVars, prune, containerId, cobj, mine, report>>

\* exec.start({hijack: true}): returns the output stream, or throws; with the
\* stream the timer is armed.
ExecStart(r) ==
  /\ pc[r] \in ExecSteps /\ xpc[r] = "start"
  /\ \E ok \in (IF Running(containerId[r]) THEN {TRUE} ELSE {}) \cup {FALSE} :
       IF ok THEN /\ xpc' = [xpc EXCEPT ![r] = "wait"]
                  /\ clock' = [clock EXCEPT ![r] = 0]
                  /\ streamOpen' = [streamOpen EXCEPT ![r] = TRUE]
                  /\ hist' = Note(r, "timerArmed", TRUE)
                  /\ UNCHANGED <<pc, idx, err, counts, result>>
             ELSE /\ Rejected(r, "exec_error")
                  /\ hist' = IF pc[r] = "test" THEN hist
                             ELSE Note(r, "installFailed", TRUE)
                  /\ UNCHANGED streamOpen
  /\ UNCHANGED <<forgeVars, given, containerName, ghost, cfg, engineVars, runsStarted, inputVars, prune,
                 containerId, cobj, mine, report>>

\* Time passes while the stream is read (the timer fires at TimeoutTicks) or
\* while the sinks are awaited (the grace timer fires at GraceTicks).
Tick(r) ==
  /\ \/ xpc[r] = "wait" /\ clock[r] < TimeoutTicks
     \/ xpc[r] = "grace" /\ clock[r] < GraceTicks
  /\ clock' = [clock EXCEPT ![r] = @ + 1]
  /\ UNCHANGED <<forgeVars, given, containerName, ghost, cfg, engineVars, runsStarted, pc, xpc,
                 streamOpen, inputVars, prune, containerId, cobj, mine, err, result,
                 report, idx, counts, hist>>

\* 'data' handlers that push the chunk to the chunk list without writing it to
\* process.stderr.
ChunkUnforwarded(r) ==
  /\ pc[r] = "test" /\ xpc[r] = "wait"
  /\ Len(result[r].stdout) + Len(result[r].stderr) < MaxChunks
  /\ \E t \in Alphabet(cfg), sink \in {"stdout", "stderr"} :
       result' = [result EXCEPT ![r][sink] = Append(@, t)]
  /\ UNCHANGED <<forgeVars, given, containerName, ghost, cfg, engineVars, runsStarted, pc, execVars,
                 inputVars, prune, containerId, cobj, mine, err, report, idx, counts,
                 hist>>

\* A chunk is demultiplexed to a sink: the sink's 'data' handler pushes it to
\* the sink's chunk list and writes its text to process.stderr (recorded for
\* the test command, whose output the report uses; a forwarded chunk is noted
\* as <<sink, position in the sink's list, text>>).
Chunk(r) ==
  /\ pc[r] = "test" /\ xpc[r] = "wait"
  /\ Len(result[r].stdout) + Len(result[r].stderr) < MaxChunks
  /\ \E t \in Alphabet(cfg), sink \in {"stdout", "stderr"} :
       /\ result' = [result EXCEPT ![r][sink] = Append(@, t)]
       /\ hist' = [hist EXCEPT ![r].forwarded = @ \cup {<<sink, Len(result[r][sink]) + 1, t>>}]
  /\ UNCHANGED <<forgeVars, given, containerName, ghost, cfg, engineVars, runsStarted, pc, execVars,
                 inputVars, prune, containerId, cobj, mine, err, report, idx, counts>>

\* A promise that takes the outcome of every resolve or reject call.
SettleAgain(state, outcome) == outcome

\* resolve(...) or reject(...) on the promise execCommand returns: only the
\* first call settles it.
Settle(state, outcome) == IF state = "pending" THEN outcome ELSE state

\* A stream 'end' handler that leaves the timer running.
ClearTimeoutSkipped(armed) == armed

\* clearTimeout(timeoutId).
ClearTimeout(armed) == FALSE

\* stream 'end': the timer is cleared and the sinks are awaited.
StreamEnd(r) ==
  /\ xpc[r] = "wait"
  /\ xpc' = [xpc EXCEPT ![r] = "grace"]
  /\ clock' = [clock EXCEPT ![r] = 0]
  /\ streamOpen' = [streamOpen EXCEPT ![r] = FALSE]
  /\ hist' = Note(r, "timerArmed", ClearTimeout(hist[r].timerArmed))
  /\ UNCHANGED <<forgeVars, given, containerName, ghost, cfg, engineVars, runsStarted, pc, inputVars,
                 prune, containerId, cobj, mine, err, result, report, idx, counts>>

\* stream 'error': the timer is cleared and the call rejects.
StreamError(r) ==
  /\ xpc[r] = "wait"
  /\ Rejected(r, "stream_error")
  /\ streamOpen' = [streamOpen EXCEPT ![r] = FALSE]
  /\ hist' = [hist EXCEPT ![r].timerArmed = ClearTimeout(@),
                          ![r].installFailed = IF pc[r] = "test" THEN @ ELSE TRUE]
  /\ UNCHANGED <<forgeVars, given, containerName, ghost, cfg, engineVars, runsStarted, inputVars, prune,
                 containerId, cobj, mine, report>>

\* A timer callback that rejects without destroying the stream.
StreamLeftOpen == TRUE

\* The timer callback: whether the stream handle is open after
\* stream.destroy().
StreamAfterTimeout == FALSE

\* An execCommand without the timeout timer.
TimerNeverFires(r) ==
  /\ xpc[r] = "wait" /\ clock[r] > TimeoutTicks
  /\ UNCHANGED vars

\* The timer expires: stream.destroy() and reject with the timeout error.
\* The 'end' and 'error' handlers stay registered on the destroyed stream
\* (what they do later is followed where execCommand is studied on its own).
TimerFire(r) ==
  /\ xpc[r] = "wait" /\ clock[r] = TimeoutTicks
  /\ hist[r].timerArmed
  /\ Rejected(r, "timeout")
  /\ streamOpen' = [streamOpen EXCEPT ![r] = StreamAfterTimeout]
  /\ hist' = [hist EXCEPT ![r].timerArmed = FALSE,
                          ![r].lateHandlers = (cfg = "exec"),
                          ![r].settled = IF cfg = "exec" THEN Settle("pending", "timeout")
                                         ELSE @,
                          ![r].timedOut = IF pc[r] = "test" THEN TRUE ELSE @,
                          ![r].timeoutAt = IF pc[r] = "test" THEN clock[r] ELSE @,
                          ![r].handleAtTimeout = IF pc[r] = "test" THEN containerId[r]
                                                 ELSE @,
                          ![r].installFailed = IF pc[r] = "test" THEN @ ELSE TRUE]
  /\ UNCHANGED <<forgeVars, given, containerName, ghost, cfg, engineVars, runsStarted, inputVars, prune,
                 containerId, cobj, mine, report>>

\* The stream of an exec whose timer has fired emits 'end' or 'error' after
\* all: the handler calls resolve or reject on the promise that the timer has
\* settled.
LateStreamEvent(r) ==
  /\ hist[r].lateHandlers
  /\ \E outcome \in {"result", "stream_error", "exec_inspect_failed"} :
       hist' = [hist EXCEPT ![r].lateHandlers = FALSE,
                            ![r].settled = Settle(@, outcome)]
  /\ UNCHANGED <<forgeVars, given, containerName, ghost, cfg, engineVars, runsStarted, pc,
                 execVars, inputVars, prune, containerId, cobj, mine, err, result, report,
                 idx, counts>>

\* Both sinks have ended (at any moment of the grace period): the race is over.
SinksDone(r) ==
  /\ xpc[r] = "grace"
  /\ xpc' = [xpc EXCEPT ![r] = "inspect"]
  /\ clock' = [clock EXCEPT ![r] = 0]
  /\ UNCHANGED <<forgeVars, given, containerName, ghost, cfg, engineVars, runsStarted, pc, streamOpen,
                 inputVars, prune, containerId, cobj, mine, err, result, report, idx,
                 counts, hist>>

\* A race without the 5000 ms timer: only the end of both sinks ends the wait.
NoGraceTimer(r) ==
  /\ xpc[r] = "grace" /\ clock[r] > GraceTicks
  /\ UNCHANGED vars

\* The 5000 ms timer of the race fires: the race is over whether or not the
\* sinks have signalled their end.
GraceElapsed(r) ==
  /\ xpc[r] = "grace" /\ clock[r] = GraceTicks
  /\ xpc' = [xpc EXCEPT ![r] = "inspect"]
  /\ clock' = [clock EXCEPT ![r] = 0]
  /\ UNCHANGED <<forgeVars, given, containerName, ghost, cfg, engineVars, runsStarted, pc, streamOpen,
                 inputVars, prune, containerId, cobj, mine, err, result, report, idx,
                 counts, hist>>

\* The install commands that write into /workspace, the read-write bind mount
\* of the host project directory: `npm install`, `npm install <packages>`,
\* `yarn add <packages>` and `forge install --root /workspace`.
HostWriters == {"projInstall", "npmInstall", "yarnAdd", "forge"}

\* What exec.inspect() reports when it returns: <<n>> for ExitCode n, <<>> for
\* an ExitCode that is null or undefined (the command has not exited).
InspectAnswers == {<<>>} \cup {<<n>> : n \in ExitCodes}

\* An exit code that reads a missing ExitCode as 0.
ExitCodeOrZero(inspect) == IF inspect = <<>> THEN 0 ELSE inspect[1]

\* inspect.ExitCode ?? -1.
ExitCodeOf(inspect) == IF inspect = <<>> THEN NoExitCode ELSE inspect[1]

\* exec.inspect(): the exit code (ExitCode ?? -1), or the call rejects.
ExecInspect(r) ==
  /\ pc[r] \in ExecSteps /\ xpc[r] = "inspect"
  /\ \E inspect \in InspectAnswers, ok \in BOOLEAN :
       IF ok THEN LET code == ExitCodeOf(inspect)
                  IN /\ Resolved(r, code)
                     /\ hist' = IF pc[r] = "test"
                                  THEN Push(r, Note(r, "noExitCode", inspect = <<>>),
                                            <<"step3Complete", "step4Start">>)
                                ELSE IF code # 0 THEN Note(r, "installFailed", TRUE)
                                ELSE IF pc[r] \in HostWriters
                                  THEN Note(r, "hostWrites", TRUE)
                                ELSE hist
             ELSE /\ Rejected(r, "exec_inspect_failed")
                  /\ hist' = IF pc[r] = "test" THEN hist
                             ELSE Note(r, "installFailed", TRUE)
  /\ UNCHANGED <<forgeVars, given, containerName, ghost, cfg, engineVars, runsStarted, streamOpen,
                 inputVars, prune, containerId, cobj, mine, report>>

\* --------------------------------------------- DockerManager: removeContainer
\* Where runTest continues after removeContainer returned: the optional
\* prune on the normal path, else the report.
AfterRemove(r) == IF err[r] = "none" /\ prune[r] THEN "prune" ELSE "report"

\* A removeContainer without the `if (!this.containerId) return` guard.
RemoveEntryAlwaysInspect(handle) == "rmInspect"

\* The guard at the entry of removeContainer: without a handle it returns at once.
RemoveEntry(handle) == IF handle = NoContainer THEN "removed" ELSE "rmInspect"

\* removeContainer is called (step 4, or the catch block).  (enablePrune, an
\* argument that only step 4 reads, is drawn here.)
RemoveBegin(r) ==
  /\ pc[r] = "cleanup"
  /\ hist' = [hist EXCEPT ![r].cleaned = TRUE, ![r].rmCalls = @ + 1]
  /\ \E p \in BOOLEAN : prune' = [prune EXCEPT ![r] = p /\ err[r] = "none"]
  /\ pc' = [pc EXCEPT ![r] = RemoveEntry(containerId[r])]
  /\ UNCHANGED <<forgeVars, given, containerName, ghost, cfg, engineVars, runsStarted, execVars,
                 inputVars, containerId, cobj, mine, err, result, report, idx, counts>>

\* The engine's answers to a call on container c: "ok", "notfound" (404, the
\* container does not exist) or "error" (any other failure).
Answers(c) == (IF Exists(c) THEN {"ok"} ELSE {"notfound"}) \cup {"error"}

\* A catch block that returns without clearing the handle.
RemoveFailedKeepHandle(r) ==
  /\ UNCHANGED containerId
  /\ pc' = [pc EXCEPT ![r] = "removed"]
  /\ hist' = Note(r, "rmGone", ~Exists(containerId[r]))

\* The catch block of removeContainer: not found and any other error both
\* clear the handle and return.
RemoveFailed(r) ==
  /\ containerId' = [containerId EXCEPT ![r] = NoContainer]
  /\ pc' = [pc EXCEPT ![r] = "removed"]
  /\ hist' = Note(r, "rmGone", ~Exists(containerId[r]))

\* container.inspect() in removeContainer.
RemoveInspect(r) ==
  /\ pc[r] = "rmInspect"
  /\ \E ans \in Answers(containerId[r]) :
       IF ans = "ok"
         THEN /\ pc' = [pc EXCEPT ![r] = IF containers[containerId[r]] = "running"
                                          THEN "rmStop" ELSE "rmRemove"]
              /\ UNCHANGED <<containerId, hist>>
         ELSE RemoveFailed(r)
  /\ UNCHANGED <<forgeVars, given, containerName, ghost, cfg, engineVars, runsStarted, execVars,
                 inputVars, prune, cobj, mine, err, result, report, idx, counts>>

\* container.stop({t: 10}).
RemoveStop(r) ==
  /\ pc[r] = "rmStop"
  /\ \E ans \in Answers(containerId[r]) :
       IF ans = "ok"
         THEN /\ containers' = Put(containerId[r], "exited")
              /\ pc' = [pc EXCEPT ![r] = "rmRemove"]
              /\ UNCHANGED <<containerId, hist>>
         ELSE RemoveFailed(r) /\ UNCHANGED containers
  /\ UNCHANGED <<forgeVars, given, containerName, ghost, cfg, imagePresent, nextId, runsStarted,
                 execVars, inputVars, prune, cobj, mine, err, result, report, idx,
                 counts>>

\* container.remove({force: true}), then the handle is cleared.
RemoveRemove(r) ==
  /\ pc[r] = "rmRemove"
  /\ \E ans \in Answers(containerId[r]) :
       /\ containers' = IF ans = "ok" THEN Drop({containerId[r]}) ELSE containers
       /\ RemoveFailed(r)
  /\ UNCHANGED <<forgeVars, given, containerName, ghost, cfg, imagePresent, nextId, runsStarted,
                 execVars, inputVars, prune, cobj, mine, err, result, report, idx,
                 counts>>

\* removeContainer has returned: on the normal path step 4 goes on with the
\* optional prune, the catch block goes straight to its report.
Removed(r) ==
  /\ pc[r] = "removed"
  /\ pc' = [pc EXCEPT ![r] = AfterRemove(r)]
  /\ UNCHANGED <<forgeVars, given, containerName, ghost, cfg, engineVars, runsStarted, execVars,
                 inputVars, prune, containerId, cobj, mine, err, result, report, idx,
                 counts, hist>>

\* A prune that removes unused images too (`docker system prune -a -f`).
PruneAll(r) ==
  /\ pc[r] = "prune"
  /\ \E ok \in BOOLEAN :
       /\ containers' = IF ok THEN Drop({c \in DOMAIN containers : containers[c] # "running"})
                        ELSE containers
       /\ imagePresent' = IF ok THEN FALSE ELSE imagePresent
  /\ pc' = [pc EXCEPT ![r] = "report"]
  /\ UNCHANGED <<forgeVars, given, containerName, ghost, cfg, nextId, runsStarted, execVars, inputVars,
                 prune, containerId, cobj, mine, err, result, report, idx, counts, hist>>

\* cleanupDockerSystemCache: `docker system prune -f` removes every container
\* that is not running (when it succeeds); it never rejects.
Prune(r) ==
  /\ pc[r] = "prune"
  /\ \E ok \in BOOLEAN :
       containers' = IF ok THEN Drop({c \in DOMAIN containers : containers[c] # "running"})
                     ELSE containers
  /\ pc' = [pc EXCEPT ![r] = "report"]
  /\ UNCHANGED <<forgeVars, given, containerName, ghost, cfg, imagePresent, nextId, runsStarted,
                 execVars, inputVars, prune, containerId, cobj, mine, err, result,
                 report, idx, counts, hist>>

\* ------------------------------------------------------- runTest: the report
\* runTest returns: on the normal path the completion entry of step 4 is
\* pushed and the report holds the verdict and the progress summary; the catch
\* block returns `FAIL. Error: ...`.
Return(r) ==
  /\ pc[r] = "report"
  /\ IF err[r] = "none"
       THEN /\ hist' = Push(r, hist, <<"step4Complete">>)
            /\ report' = [report EXCEPT ![r] =
                            ResultText(result[r], hist'[r].progressLogs)]
       ELSE /\ report' = [report EXCEPT ![r] = ErrorReport(err[r])]
            /\ UNCHANGED hist
  /\ pc' = [pc EXCEPT ![r] = "done"]
  /\ UNCHANGED <<forgeVars, given, containerName, ghost, cfg, engineVars, runsStarted, execVars,
                 inputVars, prune, containerId, cobj, mine, err, result, idx, counts>>

\* ------------------------------------------------------------ specification
Next ==
  \E r \in Runs :
    \/ Validate(r)
    \/ NewRun(r)
    \/ Ping(r)
    \/ ImageInspect(r)
    \/ BuildClose(r)
    \/ CreateContainer(r)
    \/ StartContainer(r)
    \/ PostInspect(r)
    \/ InstallBegin(r)
    \/ BeginTest(r)
    \/ ExecCreate(r)
    \/ ExecStart(r)
    \/ Tick(r)
    \/ Chunk(r)
    \/ StreamEnd(r)
    \/ StreamError(r)
    \/ TimerFire(r)
    \/ SinksDone(r)
    \/ GraceElapsed(r)
    \/ ExecInspect(r)
    \/ RemoveBegin(r)
    \/ RemoveInspect(r)
    \/ RemoveStop(r)
    \/ RemoveRemove(r)
    \/ Removed(r)
    \/ Prune(r)
    \/ Return(r)

\* One runTest invocation at a time, any inputs.
Spec == Init /\ [][Next]_vars

\* The steps of run r that happen without anything the command in the
\* container does: the engine's control-plane calls and the build subprocess
\* return or fail, time passes and the timers fire.  (When chunks arrive, when
\* the output stream ends or fails and when the sinks end is up to the command.)
Returns(r) ==
  \/ Ping(r) \/ ImageInspect(r) \/ BuildClose(r)
  \/ CreateContainer(r) \/ StartContainer(r) \/ PostInspect(r)
  \/ InstallBegin(r) \/ BeginTest(r)
  \/ ExecCreate(r) \/ ExecStart(r) \/ Tick(r) \/ TimerFire(r) \/ GraceElapsed(r)
  \/ ExecInspect(r)
  \/ RemoveBegin(r) \/ RemoveInspect(r) \/ RemoveStop(r) \/ RemoveRemove(r)
  \/ Removed(r) \/ Prune(r) \/ Return(r)

InitLive ==
  /\ cfg = "live" /\ InitEngine /\ InitRuns /\ InitForgeCalls /\ InitPaths
  /\ fenv = EnvDefault

\* One runTest invocation at a time, under the assumption that every engine
\* call and every subprocess returns or fails and that timers fire.
SpecLive == InitLive /\ [][Next]_vars /\ \A r \in Runs : WF_vars(Returns(r))

InitExec ==
  /\ cfg = "exec" /\ InitEngine /\ InitRuns /\ InitForgeCalls /\ InitPaths
  /\ fenv = EnvDefault

\* runTest with the handlers that a timed-out exec leaves behind.
NextExec ==
  \/ Next
  \/ \E r \in Runs : LateStreamEvent(r)

SpecExec == InitExec /\ [][NextExec]_vars

\* Steps 2 and 3 of runTest as one step: installDependenciesFromManifest and
\* execCommand only exec inside the run's own running container and change
\* nothing another run can observe, so for the interleaving of concurrent runs
\* they are summarised by their outcome: a result, or the error execCommand
\* rejected with for the test command (the install step catches the errors of
\* its own commands).
RunInContainer(r) ==
  /\ pc[r] = "install"
  /\ containerId[r] # NoContainer
  /\ \E out \in {"exec_error", "timeout", "none"}, code \in ExitCodes :
       IF out = "none"
         THEN /\ result' = [result EXCEPT ![r] = [NoResult EXCEPT !.exitCode = code,
                                                                  !.set = TRUE]]
              /\ pc' = [pc EXCEPT ![r] = "cleanup"]
              /\ hist' = Push(r, Note(r, "testStarted", TRUE),
                              <<"step2Complete", "step3Start", "step3Complete",
                                "step4Start">>)
              /\ UNCHANGED err
         ELSE /\ Throw(r, out)
              /\ hist' = Push(r, Note(r, "testStarted", TRUE),
                              <<"step2Complete", "step3Start">>)
              /\ UNCHANGED result
  /\ UNCHANGED <<forgeVars, given, containerName, ghost, cfg, engineVars, runsStarted, execVars,
                 inputVars, prune, containerId, cobj, mine, report, idx, counts>>

NextConc ==
  \E r \in Runs :
    \/ Validate(r)
    \/ NewRun(r)
    \/ Ping(r)
    \/ ImageInspect(r)
    \/ BuildClose(r)
    \/ CreateContainer(r)
    \/ StartContainer(r)
    \/ PostInspect(r)
    \/ RunInContainer(r)
    \/ RemoveBegin(r)
    \/ RemoveInspect(r)
    \/ RemoveStop(r)
    \/ RemoveRemove(r)
    \/ Removed(r)
    \/ Prune(r)
    \/ Return(r)

\* Two runTest invocations in flight at once.
SpecConc == InitConc /\ [][NextConc]_vars

\* ------------------------------------------------------- runForgeInDocker
\* runForgeInDocker is called: withDockerLifecycleLock reads the lock promise,
\* replaces it by its own and awaits the one it read.
RunForgeCall(c) ==
  /\ cfg \in {"forge", "lock"}
  /\ fpc[c] = "idle"
  /\ \E path \in ProjectPaths(cfg), args \in ArgLists(cfg) :
       /\ projectPath' = [projectPath EXCEPT ![c] = path]
       /\ forgeArgs' = [forgeArgs EXCEPT ![c] = args]
  /\ previous' = [previous EXCEPT ![c] = dockerLifecycleLock]
  /\ dockerLifecycleLock' = c
  /\ fpc' = [fpc EXCEPT ![c] = "waiting"]
  /\ UNCHANGED <<runVars, fsys, rootResult, forgeArgsWithConfig, engineVars, ghost, cfg,
                 fenv, released, imageBuilt, forgeResult, fhist>>

\* A withDockerLifecycleLock that does not await the promise it read.
LockNotAwaited(c) ==
  /\ fpc[c] = "waiting"
  /\ fpc' = [fpc EXCEPT ![c] = "root"]
  /\ UNCHANGED <<runVars, pathVars, engineVars, ghost, cfg, fenv, dockerLifecycleLock, previous,
                 released, imageBuilt, forgeResult, fhist>>

\* `await previous` returns: the awaited promise is resolved.
LockAcquired(c) ==
  /\ fpc[c] = "waiting"
  /\ previous[c] = NoCall \/ previous[c] \in released
  /\ fpc' = [fpc EXCEPT ![c] = "root"]
  /\ UNCHANGED <<runVars, pathVars, engineVars, ghost, cfg, fenv, dockerLifecycleLock, previous,
                 released, imageBuilt, forgeResult, fhist>>

\* An error thrown outside the try/finally of runForgeInDocker: only the
\* finally of withDockerLifecycleLock runs.
ForgeThrow(c) ==
  /\ forgeResult' = [forgeResult EXCEPT ![c] = "error"]
  /\ fpc' = [fpc EXCEPT ![c] = "release"]

\* runForgeInDocker up to ensureSandboxImage: the path is resolved, the root
\* is searched (an error of the search is thrown on), the config path is
\* added to the arguments.
FindRoot(c) ==
  /\ fpc[c] = "root"
  /\ LET requestedPath == resolve(fsys, projectPath[c])
         found == findFoundryProjectRoot(fsys, requestedPath)
         out == ensureConfigPathArg(forgeArgs[c], ContainerConfigPath)
     IN /\ rootResult' = [rootResult EXCEPT ![c] = found]
        /\ IF found.status = "ok"
             THEN /\ forgeArgs' = [forgeArgs EXCEPT ![c] = out.input]
                  /\ forgeArgsWithConfig' = [forgeArgsWithConfig EXCEPT ![c] = out.result]
                  /\ fpc' = [fpc EXCEPT ![c] = "ensure"]
                  /\ UNCHANGED forgeResult
             ELSE /\ ForgeThrow(c)
                  /\ UNCHANGED <<forgeArgs, forgeArgsWithConfig>>
  /\ UNCHANGED <<runVars, fsys, projectPath, engineVars, ghost, cfg, fenv,
                 dockerLifecycleLock, previous, released, imageBuilt, fhist>>

\* The exit of `docker image inspect`: "zero" only when the image is present,
\* "nonzero" (absent, or the command failed for another reason, or it was
\* killed: exitCode null), or spawnAndCapture rejects (timeout, spawn error).
InspectExits == {"nonzero", "reject"}

\* What ensureSandboxImage does with the exit of the inspect command.
AfterSandboxInspect(exit) ==
  CASE exit = "zero" -> "run"
    [] exit = "reject" -> "throw"
    [] OTHER -> "fbuilding"

\* ensureSandboxImage up to the spawn of the build: the autoBuild switch, the
\* inspect command and, when its exit code is not 0, the build command.
EnsureSandboxImage(c) ==
  /\ fpc[c] = "ensure"
  /\ IF ~fenv.autoBuild
       THEN /\ fpc' = [fpc EXCEPT ![c] = "run"]
            /\ UNCHANGED <<forgeResult, fhist, ghost>>
       ELSE \E exit \in InspectExits \cup (IF imagePresent THEN {"zero"} ELSE {}) :
              LET next == AfterSandboxInspect(exit)
              IN /\ fhist' = [fhist EXCEPT ![c].inspected = TRUE,
                                             ![c].presentAtInspect = imagePresent,
                                             ![c].buildSpawned = next = "fbuilding"]
                 /\ ghost' = [ghost EXCEPT !.builds = IF next = "fbuilding" THEN @ + 1
                                                      ELSE @]
                 /\ IF next = "throw"
                      THEN ForgeThrow(c)
                      ELSE fpc' = [fpc EXCEPT ![c] = next] /\ UNCHANGED forgeResult
  /\ UNCHANGED <<runVars, pathVars, engineVars, cfg, fenv, dockerLifecycleLock, previous, released,
                 imageBuilt>>

\* The build command closes: exit code 0 (the image is built and
\* ensureSandboxImage returns true), another exit code, or a rejection.
SandboxBuildClose(c) ==
  /\ fpc[c] = "fbuilding"
  /\ \E ok \in BOOLEAN :
       IF ok THEN /\ imagePresent' = TRUE
                  /\ imageBuilt' = [imageBuilt EXCEPT ![c] = TRUE]
                  /\ fpc' = [fpc EXCEPT ![c] = "run"]
                  /\ UNCHANGED forgeResult
             ELSE /\ ForgeThrow(c)
                  /\ UNCHANGED <<imagePresent, imageBuilt>>
  /\ UNCHANGED <<runVars, pathVars, containers, nextId, ghost, cfg, fenv, dockerLifecycleLock,
                 previous, released, fhist>>

\* `docker run --rm ...`: a result, or spawnAndCapture rejects; the finally
\* block follows in both cases.
RunForge(c) ==
  /\ fpc[c] = "run"
  /\ \E out \in {"result", "error"} : forgeResult' = [forgeResult EXCEPT ![c] = out]
  /\ fpc' = [fpc EXCEPT ![c] = "fcleanup"]
  /\ UNCHANGED <<runVars, pathVars, engineVars, ghost, cfg, fenv, dockerLifecycleLock, previous,
                 released, imageBuilt, fhist>>

\* cleanupSandboxImage: `docker rmi -f` when the switch is on and this call
\* built the image; a failure of the command is ignored.
CleanupSandboxImage(c) ==
  /\ fpc[c] = "fcleanup"
  /\ IF fenv.cleanupImage /\ imageBuilt[c]
       THEN /\ \E ok \in BOOLEAN : imagePresent' = (imagePresent /\ ~ok)
            /\ fhist' = [fhist EXCEPT ![c].rmiSpawned = TRUE]
       ELSE UNCHANGED <<imagePresent, fhist>>
  /\ fpc' = [fpc EXCEPT ![c] = "release"]
  /\ UNCHANGED <<runVars, pathVars, containers, nextId, ghost, cfg, fenv, dockerLifecycleLock,
                 previous, released, imageBuilt, forgeResult>>

\* A withDockerLifecycleLock without the finally: release() is called only
\* when the body returned a result.
ReleaseOnReturnOnly(c) ==
  /\ fpc[c] = "release"
  /\ released' = IF forgeResult[c] = "result" THEN released \cup {c} ELSE released
  /\ fpc' = [fpc EXCEPT ![c] = "returned"]
  /\ UNCHANGED <<runVars, pathVars, engineVars, ghost, cfg, fenv, dockerLifecycleLock, previous,
                 imageBuilt, forgeResult, fhist>>

\* The finally of withDockerLifecycleLock: release().
Release(c) ==
  /\ fpc[c] = "release"
  /\ released' = released \cup {c}
  /\ fpc' = [fpc EXCEPT ![c] = "returned"]
  /\ UNCHANGED <<runVars, pathVars, engineVars, ghost, cfg, fenv, dockerLifecycleLock, previous,
                 imageBuilt, forgeResult, fhist>>

NextForge ==
  \E c \in Runs :
    \/ RunForgeCall(c)
    \/ LockAcquired(c)
    \/ FindRoot(c)
    \/ EnsureSandboxImage(c)
    \/ SandboxBuildClose(c)
    \/ RunForge(c)
    \/ CleanupSandboxImage(c)
    \/ Release(c)

\* Calls of runForgeInDocker, possibly overlapping, under any setting of the
\* two environment switches.
SpecForge == InitForge /\ [][NextForge]_vars

\* What happens to call c without the caller's doing: an awaited promise
\* settles (a subprocess closes, fails or is killed by its timer) and the
\* continuation runs.
ForgeSteps(c) ==
  \/ LockAcquired(c)
  \/ FindRoot(c)
  \/ EnsureSandboxImage(c)
  \/ SandboxBuildClose(c)
  \/ RunForge(c)
  \/ CleanupSandboxImage(c)
  \/ Release(c)

\* Calls of runForgeInDocker under the assumption that every subprocess
\* closes, fails or is killed by the timer of spawnAndCapture.
SpecForgeLive ==
  InitForgeLive /\ [][NextForge]_vars /\ \A c \in Runs : WF_vars(ForgeSteps(c))

\* ------------------------------------------------- the two pure functions
\* The words a captured output is made of when its failure reason is extracted.
ReasonAlphabet == {"Error", "Revert", "ok", "\n"}

\* Token sequences of length n over ReasonAlphabet.
Outputs(n) == [1..n -> ReasonAlphabet]

\* The results execCommand may hand to the report step: any split of at most
\* MaxChunks words over the two sinks, with any exit code.
Results ==
  LET sinks == UNION {Outputs(n) : n \in 0..MaxChunks}
  IN {[stdout |-> p[1], stderr |-> p[2], exitCode |-> x, set |-> TRUE] :
        p \in {q \in sinks \X sinks : Len(q[1]) + Len(q[2]) <= MaxChunks},
        x \in ExitCodes \cup {NoExitCode}}

InitPure ==
  /\ cfg = "pure"
  /\ InitEngine /\ InitForgeCalls /\ InitPaths /\ fenv = EnvDefault
  /\ runsStarted = 0
  /\ pc = [r \in Runs |-> "idle"]
  /\ xpc = [r \in Runs |-> "none"]
  /\ checks = [r \in Runs |-> NoChecks]
  /\ deps = [r \in Runs |-> NoDeps]
  /\ prune = [r \in Runs |-> FALSE]
  /\ libs = [r \in Runs |-> 0]
  /\ containerId = [r \in Runs |-> NoContainer]
  /\ cobj = [r \in Runs |-> NoContainer]
  /\ mine = [r \in Runs |-> {}]
  /\ err = [r \in Runs |-> "none"]
  /\ \E res \in Results :
       result = [r \in Runs |-> IF r = 1 THEN res ELSE NoResult]
  /\ report = [r \in Runs |-> NoReport]
  /\ clock = [r \in Runs |-> 0]
  /\ streamOpen = [r \in Runs |-> FALSE]
  /\ idx = [r \in Runs |-> 0]
  /\ counts = [r \in Runs |-> NoCounts]
  /\ hist = [r \in Runs |-> NoHist]
  /\ given \in [Runs -> ForgeSections \ {BadSection}]
  /\ containerName = [r \in Runs |-> NoName]

\* normalizeDependencies applied to the section given to slot r.
Normalize(r) ==
  /\ cfg = "pure"
  /\ pc[r] = "idle"
  /\ pc' = [pc EXCEPT ![r] = "normalized"]
  /\ deps' = [deps EXCEPT ![r].forge = normalizeDependencies(given[r])]
  /\ UNCHANGED <<cfg, engineVars, ghost, forgeVars, given, containerName, runsStarted, xpc, checks,
                 prune, libs, containerId, cobj, mine, err, result, report, clock,
                 streamOpen, idx, counts, hist>>

\* The report step of runTest applied to a completed command's result.
Extract(r) ==
  /\ cfg = "pure"
  /\ result[r].set
  /\ report[r].form = "none"
  /\ report' = [report EXCEPT ![r] = VerdictReport(result[r])]
  /\ UNCHANGED <<cfg, engineVars, ghost, forgeVars, given, containerName, runsStarted, pc, xpc, checks,
                 deps, prune, libs, containerId, cobj, mine, err, result, clock,
                 streamOpen, idx, counts, hist>>

NextPure ==
  \E r \in Runs :
    \/ Normalize(r)
    \/ Extract(r)

SpecPure == InitPure /\ [][NextPure]_vars

\* ------------------------------------------------------ the container name
\* Date.now() readings (milliseconds) and the values of
\* Math.random().toString(36).substring(2, 8) two runs may obtain.
Timestamps == {1, 2, 3}
Suffixes == {"", "k3x9ab", "q0z7mm", "w5t1cd"}

\* `foundry-sandbox-${timestamp}-${randomSuffix}`, as the sequence of its parts.
ContainerName(timestamp, randomSuffix) == <<"foundry-sandbox", timestamp, randomSuffix>>

InitName ==
  /\ cfg = "name" /\ InitEngine /\ InitRuns /\ InitForgeCalls /\ InitPaths
  /\ fenv = EnvDefault

\* createAndStartContainer generates the name of the container it will create.
NameContainer(r) ==
  /\ cfg = "name"
  /\ containerName[r] = NoName
  /\ \E timestamp \in Timestamps, randomSuffix \in Suffixes :
       containerName' = [containerName EXCEPT ![r] = ContainerName(timestamp, randomSuffix)]
  /\ UNCHANGED <<cfg, engineVars, ghost, forgeVars, given, runsStarted, pc, xpc, checks,
                 deps, prune, libs, containerId, cobj, mine, err, result, report, clock,
                 streamOpen, idx, counts, hist>>

NextName == \E r \in Runs : NameContainer(r)

\* Two runs, each generating its container name, at any two clock readings.
SpecName == InitName /\ [][NextName]_vars

\* ------------------------------ findFoundryProjectRoot, ensureConfigPathArg
\* Either a start directory on some file system is given to
\* findFoundryProjectRoot, or an argument array to ensureConfigPathArg.
InitPath ==
  /\ cfg = "path"
  /\ InitEngine /\ InitRuns /\ InitForgeCalls /\ fenv = EnvDefault
  /\ rootResult = [c \in Runs |-> NoRoot]
  /\ forgeArgsWithConfig = [c \in Runs |-> NoArray]
  /\ \/ /\ fsys \in Filesystems(cfg)
        /\ \E startDir \in ProjectPaths(cfg) :
             projectPath = [c \in Runs |-> IF c = 1 THEN startDir ELSE Dot]
        /\ forgeArgs = [c \in Runs |-> NoArray]
     \/ /\ fsys = NoFilesystem
        /\ projectPath = [c \in Runs |-> Dot]
        /\ \E args \in ArgLists(cfg) :
             forgeArgs = [c \in Runs |-> IF c = 1 THEN args ELSE NoArray]

\* findFoundryProjectRoot(startDir) is called with the path given to call c.
FindProjectRoot(c) ==
  /\ cfg = "path"
  /\ forgeArgs[c].id = "none"
  /\ rootResult[c] = NoRoot
  /\ rootResult' = [rootResult EXCEPT ![c] = findFoundryProjectRoot(fsys, projectPath[c])]
  /\ UNCHANGED <<cfg, engineVars, ghost, runVars, fenv, dockerLifecycleLock, previous,
                 released, fpc, imageBuilt, forgeResult, fhist, fsys, projectPath,
                 forgeArgs, forgeArgsWithConfig>>

\* ensureConfigPathArg(forgeArgs, containerConfigPath) is called with the
\* array given to call c.
EnsureConfigPath(c) ==
  /\ cfg = "path"
  /\ forgeArgs[c].id # "none"
  /\ forgeArgsWithConfig[c] = NoArray
  /\ LET out == ensureConfigPathArg(forgeArgs[c], ContainerConfigPath)
     IN /\ forgeArgs' = [forgeArgs EXCEPT ![c] = out.input]
        /\ forgeArgsWithConfig' = [forgeArgsWithConfig EXCEPT ![c] = out.result]
  /\ UNCHANGED <<cfg, engineVars, ghost, runVars, fenv, dockerLifecycleLock, previous,
                 released, fpc, imageBuilt, forgeResult, fhist, fsys, projectPath,
                 rootResult>>

NextPath ==
  \E c \in Slots(cfg) :
    \/ FindProjectRoot(c)
    \/ EnsureConfigPath(c)

SpecPath == InitPath /\ [][NextPath]_vars

\* ------------------------------------------- findMcpProjectPath on its own
InitMcp ==
  /\ cfg = "mcp" /\ InitEngine /\ InitRuns /\ InitForgeCalls /\ InitPaths
  /\ fenv = EnvDefault

\* findMcpProjectPath() is called on a manager of its own, constructed with or
\* without a configured path.
FindMcpProject(r) ==
  /\ cfg = "mcp"
  /\ pc[r] = "idle"
  /\ \E l \in Layouts(cfg) :
       hist' = [hist EXCEPT ![r].lookedUp = TRUE,
                            ![r].mcpFiles = l,
                            ![r].descriptor = findMcpProjectPath(l)]
  /\ pc' = [pc EXCEPT ![r] = "looked"]
  /\ UNCHANGED <<forgeVars, given, containerName, ghost, cfg, engineVars, runsStarted, execVars,
                 inputVars, prune, containerId, cobj, mine, err, result, report, idx,
                 counts>>

\* The search on its own, and runTest up to the point where ensureImageExists
\* has looked for the build files.
NextMcp ==
  \E r \in Slots(cfg) :
    \/ FindMcpProject(r)
    \/ Validate(r)
    \/ Ping(r)
    \/ ImageInspect(r)

SpecMcp == InitMcp /\ [][NextMcp]_vars

\* -------------------------------------------------------------- properties
CleanupSteps == {"rmInspect", "rmStop", "rmRemove", "removed", "prune", "report", "done"}
InstallSteps == ExecSteps \ {"test"}

\* The containers run r created that still exist in the engine.
LeftBehind(r) == {c \in mine[r] : Exists(c)}

\* C1: after runTest has returned, no container the run created exists in the
\* engine, whatever happened during the run.
C1_NoContainerLeftBehind ==
  \A r \in Runs : pc[r] = "done" => LeftBehind(r) = {}

\* C2 as stated: runTest returns a report only after removeContainer has been
\* called.
C2_ReportOnlyThroughCleanup ==
  \A r \in Runs : report[r].form # "none" => hist[r].cleaned

\* C2, amended: a run whose input checks passed returns its report only after
\* removeContainer was called, and once removeContainer was called no step but
\* the optional prune and the report follows; a run whose input checks failed
\* returns its failure report without any cleanup.
C2_CleanupBeforeReportOnceValidated ==
  \A r \in Runs :
    /\ (report[r].form # "none" /\ ValidationError(checks[r]) = "none")
         => hist[r].cleaned /\ hist[r].rmCalls = 1
    /\ hist[r].cleaned => pc[r] \in CleanupSteps
    /\ (report[r].form # "none" /\ ValidationError(checks[r]) # "none")
         => ~hist[r].cleaned /\ report[r].form = "error"

\* A step of the try block threw and the report was returned after cleanup.
C2_Witness ==
  \E r \in Runs : pc[r] = "done" /\ err[r] = "create_failed" /\ hist[r].cleaned

\* C3: when the start call fails or the post-start inspect reports the
\* container as not running, the run ends with a lifecycle error and the
\* created container has been removed from the engine.
C3_FailedStartIsCleanedUp ==
  \A r \in Runs :
    (pc[r] = "done" /\ hist[r].startFailed)
      => /\ err[r] \in {"start_failed", "not_running"}
         /\ report[r].form = "error"
         /\ LeftBehind(r) = {}

\* C4: once the container has started, no failure of an install step aborts
\* the run: no error is raised while installing, and a run that reaches its
\* cleanup has handed the test command to execCommand.
C4_InstallNeverAborts ==
  \A r \in Runs :
    /\ pc[r] \in InstallSteps \cup {"install", "installed"} => err[r] = "none"
    /\ (hist[r].started /\ pc[r] \in CleanupSteps \cup {"cleanup"}) => hist[r].testStarted
    /\ (hist[r].started /\ err[r] # "none") => hist[r].testStarted

\* An install step failed and the test command has been handed to
\* execCommand.
C4_Witness ==
  \E r \in Runs :
    /\ hist[r].installFailed /\ hist[r].testStarted
    /\ pc[r] = "test" /\ xpc[r] = "create" /\ err[r] = "none"

\* C5: no engine call is made and no container is created unless every input
\* check passed; a run with a failing check ends with a failure report.
C5_ChecksBeforeEngine ==
  \A r \in Runs :
    LET c == checks[r]
        allPass == c.root /\ c.toml /\ c.parses /\ c.manifest /\ c.testFolder
    IN /\ (hist[r].engineTouched \/ mine[r] # {} \/ hist[r].buildSpawned) => allPass
       /\ (c.schema /\ ~allPass /\ pc[r] # "idle")
            => /\ pc[r] = "done"
               /\ report[r].form = "error" /\ report[r].status = "FAIL"
               /\ mine[r] = {} /\ ~hist[r].engineTouched

\* The test folder is missing and the run ended with a failure report.
C5_Witness ==
  \E r \in Runs :
    /\ pc[r] = "done" /\ report[r].status = "FAIL"
    /\ checks[r].manifest /\ ~checks[r].testFolder

\* C6: a provisioner whose image inspect succeeded neither looks for a build
\* descriptor nor spawns a build, and no run that finds the image present
\* spawns the build subprocess.
C6_NoBuildWhilePresent ==
  /\ \A r \in Runs :
       hist[r].imageSeen = "present" => ~hist[r].lookedUp /\ ~hist[r].buildSpawned
  /\ \A c \in Runs :
       (fhist[c].inspected /\ fhist[c].presentAtInspect) => ~fhist[c].buildSpawned

\* C7: at no time are two build subprocesses running.
C7_BuildsSerialized ==
  Cardinality({r \in Runs : pc[r] = "building"}) <= 1

\* C8: the wait for the stream never outlasts the timeout: when the time is up
\* the timer callback is the step that is due, it rejects with the timeout
\* error no later than timeout plus grace, and whenever the exec is not
\* waiting for the stream, the stream handle is not open.
C8_TimeoutDestroysStream ==
  \A r \in Runs :
    /\ xpc[r] = "wait" => clock[r] <= TimeoutTicks
    /\ (xpc[r] = "wait" /\ clock[r] = TimeoutTicks) => ENABLED TimerFire(r)
    /\ streamOpen[r] => xpc[r] = "wait"
    /\ err[r] = "timeout"
         => /\ ~streamOpen[r]
            /\ hist[r].timedOut
            /\ hist[r].timeoutAt >= TimeoutTicks
            /\ hist[r].timeoutAt <= TimeoutTicks + GraceTicks

\* The test command timed out and its stream is closed.
C8_Witness ==
  \E r \in Runs :
    /\ err[r] = "timeout" /\ hist[r].timeoutAt = TimeoutTicks
    /\ xpc[r] = "none" /\ ~streamOpen[r]

\* C9: when the test command timed out, the handle was still set, the run
\* returned FAIL with a message naming the timeout, and the container is gone
\* from the engine.
C9_TimeoutFailsAndCleans ==
  \A r \in Runs :
    (pc[r] = "done" /\ hist[r].timedOut)
      => /\ hist[r].handleAtTimeout = cobj[r]
         /\ report[r].status = "FAIL"
         /\ "timeout" \in Range(report[r].msg)
         /\ LeftBehind(r) = {}

\* C10: the verdict is PASS exactly when the exit code is 0; a PASS carries no
\* reason; a FAIL carries the line of the leftmost keyword of the output, from
\* the keyword to the end of its line, or the generic reason when the output
\* holds no keyword.
C10_VerdictAndReason ==
  \A r \in Runs :
    report[r].form = "verdict" =>
      LET rep == report[r]
          out == FormattedOutput(result[r])
          hits == {i \in 1..Len(out) : out[i] \in Keywords}
          n == Len(rep.reason)
      IN /\ result[r].set
         /\ rep.status \in {"PASS", "FAIL"}
         /\ rep.status = "PASS" <=> result[r].exitCode = 0
         /\ rep.status = "PASS" => rep.reason = <<>>
         /\ rep.status = "FAIL" =>
              /\ n > 0
              /\ hits = {} => rep.reason = GenericReason
              /\ hits # {} =>
                   \E i \in hits :
                     /\ \A j \in hits : i <= j
                     /\ rep.reason = SubSeq(out, i, i + n - 1)
                     /\ "\n" \notin Range(rep.reason)
                     /\ i + n > Len(out) \/ out[i + n] = "\n"

\* A failed test whose reason is the keyword line found in stderr.
C10_Witness ==
  \E r \in Runs :
    /\ report[r].form = "verdict" /\ report[r].status = "FAIL"
    /\ result[r].stdout = <<"\n">> /\ result[r].stderr = <<"Revert">>
    /\ report[r].reason = <<"Revert">>

\* C11: the report has the sandbox-failure form exactly when a sandbox step
\* failed, and the test-verdict form exactly when the command ran to
\* completion and its real exit code was read.
C11_ReportFormTellsFailureKind ==
  \A r \in Runs :
    /\ report[r].form = "verdict"
         => err[r] = "none" /\ result[r].set /\ result[r].exitCode \in ExitCodes
    /\ report[r].form = "error"
         => err[r] # "none" \/ ValidationError(checks[r]) # "none"
    /\ (pc[r] = "done" /\ (err[r] # "none" \/ result[r].exitCode \notin ExitCodes))
         => report[r].form = "error"

\* C12: a failed command whose combined output contains "Revert" is reported
\* with a reason that contains "Revert".
C12_RevertIsInReason ==
  \A r \in Runs :
    ( /\ report[r].form = "verdict"
      /\ result[r].exitCode # 0
      /\ "Revert" \in Range(FormattedOutput(result[r])) )
    => "Revert" \in Range(report[r].reason)

\* C14: the list form of a dependency and its mapping form with the version
\* "latest" are normalized to the same install token.
C14_ListAndMapGiveSameToken ==
  \A r, q \in Runs :
    ( /\ pc[r] = "normalized" /\ pc[q] = "normalized"
      /\ given[r].form = "list" /\ given[q].form = "map"
      /\ Len(given[r].items) = 1 /\ Len(given[q].items) = 1
      /\ given[q].items[1] = <<given[r].items[1], "latest">> )
    => deps[r].forge = deps[q].forge

\* C13: when installDependenciesFromManifest has finished, every forge
\* dependency of the list was attempted and counted once: succeeded + failed
\* is the length of the list.
C13_EveryForgeDependencyCounted ==
  \A r \in Runs :
    pc[r] = "installed" => counts[r].ok + counts[r].failed = Len(deps[r].forge)

RemoveSteps == {"rmInspect", "rmStop", "rmRemove"}

\* C15: removeContainer never raises, and whichever way it returns (container
\* removed, container not found, any other engine error) the handle is null
\* afterwards.
C15_RemoveNeverRaisesAndClearsHandle ==
  [][\A r \in Runs :
       pc[r] \in RemoveSteps \cup {"cleanup"}
         => /\ err'[r] = err[r]
            /\ pc'[r] \in RemoveSteps \cup {"cleanup", "removed"}
            /\ pc'[r] = "removed" => containerId'[r] = NoContainer]_vars

\* removeContainer returned after an engine error: the container still exists
\* and the handle is null.
C15_Witness ==
  \E r \in Runs :
    /\ pc[r] = "removed"
    /\ containerId[r] = NoContainer
    /\ LeftBehind(r) # {}

\* C16: removeContainer called without a handle makes no engine call, changes
\* nothing and returns; called for a container the engine no longer knows it
\* returns successfully as well.
C16_RemoveIsIdempotent ==
  [][\A r \in Runs :
       /\ (pc[r] = "cleanup" /\ containerId[r] = NoContainer /\ pc'[r] # pc[r])
            => /\ pc'[r] = "removed"
               /\ engineVars' = engineVars
               /\ containerId' = containerId /\ err' = err
       /\ (pc[r] \in RemoveSteps /\ ~Exists(containerId[r]) /\ pc'[r] # pc[r])
            => /\ pc'[r] = "removed"
               /\ engineVars' = engineVars
               /\ containerId'[r] = NoContainer /\ err' = err]_vars

\* removeContainer returned for a container that another run's prune had
\* removed between its inspect and its remove.
C16_Witness ==
  \E r \in Runs :
    /\ pc[r] = "removed"
    /\ hist[r].rmGone
    /\ containerId[r] = NoContainer /\ err[r] = "none"

\* C18: what a run installs stays in its container: once the run has cleaned up
\* and returned, the host project directory holds nothing the run wrote.
C18_HostProjectUntouched ==
  \A r \in Runs : pc[r] = "done" => ~hist[r].hostWrites

\* C17: with several runs in flight, a container created by a run that has not
\* returned yet is stopped, removed or otherwise changed only by a step of that
\* run, never by a step of another run.
C17_OnlyOwnContainerTouched ==
  [][\A q \in Runs : \A c \in mine[q] :
       ( /\ pc[q] \notin {"idle", "done"}
         /\ Exists(c)
         /\ (c \notin DOMAIN containers' \/ containers'[c] # containers[c]) )
       => pc'[q] # pc[q]]_vars

\* C19: no step of a run removes the execution image, so an image that was
\* present or was built stays, and a build is spawned only while the image is
\* absent: the run after a successful build finds the image and skips the build.
C19_ImageKept ==
  [][/\ imagePresent => imagePresent'
     /\ \A r \in Runs :
          hist'[r].buildCalls > hist[r].buildCalls => ~imagePresent]_vars

\* The image was absent, the first run built it, and the second run found it,
\* built nothing, passed and removed its container.
C19_Witness ==
  /\ ~ghost.imageAtStart /\ imagePresent
  /\ runsStarted = 2 /\ ghost.builds = 1
  /\ pc[1] = "done" /\ report[1].status = "PASS" /\ report[1].form = "verdict"
  /\ hist[1].imageSeen = "present" /\ hist[1].buildCalls = 0
  /\ containers = <<>>

\* C20: within one run the image build, the container creation and the test
\* command are each invoked at most once, at most one container is created,
\* removeContainer is called once, and execCommand always finds the handle
\* set, so that its branch that creates a container is never taken.
C20_NoRetries ==
  \A r \in Runs :
    /\ hist[r].buildCalls <= 1
    /\ hist[r].creates <= 1
    /\ hist[r].testCalls <= 1
    /\ hist[r].rmCalls <= 1
    /\ Cardinality(mine[r]) <= 1
    /\ pc[r] \in ExecSteps \cup {"installed"} => containerId[r] # NoContainer

\* The test command was rejected and the run returned its error report after
\* one build, one container creation and one invocation of the test command.
C20_Witness ==
  \E r \in Runs :
    /\ pc[r] = "done" /\ report[r].form = "error" /\ err[r] = "timeout"
    /\ hist[r].buildCalls = 1 /\ hist[r].creates = 1 /\ hist[r].testCalls = 1
    /\ Cardinality(mine[r]) = 1

\* C21: the container names generated for two runs are distinct, also when
\* both runs read the same clock value.
C21_NamesDistinct ==
  \A r, q \in Runs :
    (r # q /\ containerName[r] # NoName /\ containerName[q] # NoName)
      => containerName[r] # containerName[q]

\* C22: runForgeInDocker spawns the image removal only when image cleanup is
\* enabled and this call built the image, never for an image that was there
\* when the call checked for it; a call that built the image has attempted the
\* removal by the time it releases the lock, whatever the forge run gave.
C22_RemovesOnlyItsOwnImage ==
  \A c \in Runs :
    /\ fhist[c].rmiSpawned
         => fenv.cleanupImage /\ imageBuilt[c] /\ ~fhist[c].presentAtInspect
    /\ (fpc[c] \in {"release", "returned"} /\ imageBuilt[c] /\ fenv.cleanupImage)
         => fhist[c].rmiSpawned

\* The levels of the chain start, parent(start), ..., root whose directory
\* holds a foundry.toml file.
ConfigLevels(fs, startDir) ==
  {n \in 0..LevelOf(fs, startDir) : n <= fs.depth /\ fs.toml[n] = "file"}

C24_ConfigPathArgIdempotent ==
  [][\A c \in Runs :
       forgeArgsWithConfig'[c] # forgeArgsWithConfig[c] =>
         LET in == forgeArgs[c]
             out == forgeArgsWithConfig'[c]
             again == ensureConfigPathArg(out, ContainerConfigPath)
         IN /\ forgeArgs'[c] = in
            /\ hasConfigArg(in.items) => out = in
            /\ ~hasConfigArg(in.items)
                 => /\ out.id # in.id
                    /\ out.items = in.items \o <<ConfigFlag, ContainerConfigPath>>
            /\ again.result.items = out.items /\ again.input = out]_vars

\* The path was appended to arguments without it, in a new array.
C24_Witness ==
  \E c \in Runs :
    /\ forgeArgs[c] = Array("forgeArgs", <<"test", "/custom/config.toml">>)
    /\ forgeArgsWithConfig[c].id = "copy"
    /\ Len(forgeArgsWithConfig[c].items) = 4

\* The path given to call c, resolved, is no directory, or no directory from it
\* up to the root holds a foundry.toml file.
NoProjectRoot(c) ==
  LET requestedPath == resolve(fsys, projectPath[c])
  IN statPath(fsys, requestedPath) # "dir" \/ ConfigLevels(fsys, requestedPath) = {}

\* C25: a call of runForgeInDocker whose projectPath is no directory or has no
\* foundry.toml in it or above it ends with an error straight after the
\* search: it never inspects, builds or removes the image and never runs forge.
C25_NoRootNoDocker ==
  \A c \in Runs :
    (fpc[c] \notin {"idle", "waiting", "root"} /\ NoProjectRoot(c))
      => /\ fpc[c] \in {"release", "returned"}
         /\ forgeResult[c] = "error"
         /\ ~fhist[c].inspected /\ ~fhist[c].buildSpawned /\ ~fhist[c].rmiSpawned
         /\ ~imageBuilt[c]

\* A call given the path of a plain file has returned its error.
C25_Witness ==
  \E c \in Runs :
    /\ fpc[c] = "returned" /\ forgeResult[c] = "error"
    /\ rootResult[c].status = "not_a_directory"
    /\ ConfigLevels(fsys, resolve(fsys, projectPath[c])) # {}

\* The step of runTest a position belongs to: 1 image check/build, 2 container
\* create, 3 dependency install, 4 test command, 5 cleanup and report; 0 before
\* the try block.
StepOf(p) ==
  CASE p \in {"ping", "imgInspect", "building"} -> 1
    [] p \in {"create", "start", "postInspect"} -> 2
    [] p \in InstallSteps \cup {"install", "installed"} -> 3
    [] p = "test" -> 4
    [] p \in CleanupSteps \cup {"cleanup"} -> 5
    [] OTHER -> 0

\* C26: within one run the steps follow one another in the order image
\* check/build, container create, dependency install, test command, cleanup;
\* a step is entered only once the step before it has given its result (the
\* image is there, the container was confirmed running, no install command is
\* pending, the test command gave its exit code); when a step fails the run
\* goes to cleanup and executes no other step.
C26_StepsInOrder ==
  [][\A r \in Runs :
       LET a == StepOf(pc[r])
           b == StepOf(pc'[r])
       IN /\ (a >= 1 /\ b # a) => (b = a + 1 \/ b = 5 \/ (a = 5 /\ b = 0))
          /\ (a = 1 /\ b = 2) => imagePresent' /\ err'[r] = "none"
          /\ (a = 2 /\ b = 3) => /\ Running(containerId'[r]) /\ err'[r] = "none"
                                  /\ hist'[r].creates = 1
          /\ (a = 3 /\ b = 4) => /\ pc[r] = "installed" /\ xpc[r] = "none"
                                  /\ err'[r] = "none"
          /\ (a = 4 /\ b = 4) => ~(xpc[r] # "create" /\ xpc'[r] = "create")
          /\ (a \in 1..4 /\ b = 5)
               => /\ pc'[r] = "cleanup"
                  /\ (err'[r] = "none") <=> (a = 4 /\ result'[r].set)
                  /\ xpc'[r] = "none"
          /\ (err[r] = "none" /\ err'[r] # "none") => pc'[r] = "cleanup"
          /\ err[r] # "none" => b \in {0, 5}]_vars

\* The image build failed and the run has gone to its cleanup without creating
\* a container.
C26_Witness ==
  \E r \in Runs :
    /\ pc[r] = "done" /\ err[r] = "build_failed" /\ hist[r].cleaned
    /\ hist[r].creates = 0 /\ ~hist[r].testStarted

\* The errors createAndStartContainer raises before it asks for a container.
ProvisioningErrors ==
  {"docker_unavailable", "image_inspect", "no_descriptor", "compose_missing", "build_failed"}

\* C27: the container-create call is issued only after the liveness probe
\* succeeded and the image inspect found the image or the build spawned for a
\* missing image closed with success; an unreachable engine, a failed image
\* inspect, a missing build descriptor or compose command and a failed build
\* each end the call with no create call issued and no container created.
C27_CreateOnlyAfterPingAndImage ==
  [][\A r \in Runs :
       /\ (pc'[r] = "imgInspect" /\ pc[r] # "imgInspect")
            => pc[r] = "ping" /\ err'[r] = "none"
       /\ (pc'[r] = "create" /\ pc[r] # "create")
            => /\ hist[r].engineTouched /\ err'[r] = "none"
               /\ \/ pc[r] = "imgInspect" /\ hist'[r].imageSeen = "present"
                  \/ /\ pc[r] = "building" /\ hist[r].imageSeen = "absent"
                     /\ hist[r].buildSpawned /\ imagePresent'
       /\ hist'[r].creates > hist[r].creates
            => /\ pc[r] = "create" /\ err[r] = "none" /\ hist[r].creates = 0
               /\ hist[r].imageSeen = "present" \/ hist[r].buildSpawned
       /\ err'[r] \in ProvisioningErrors
            => /\ hist'[r].creates = 0 /\ mine'[r] = {} /\ cobj'[r] = NoContainer
               /\ StepOf(pc'[r]) = 5]_vars

\* The image was missing, the build closed with success and the container was
\* created.
C27_Witness ==
  \E r \in Runs :
    /\ pc[r] = "start" /\ hist[r].creates = 1 /\ mine[r] # {}
    /\ hist[r].imageSeen = "absent" /\ hist[r].buildSpawned /\ imagePresent

\* C28: the handle is set only by the post-start inspect of a container this
\* manager created and started, and only when that inspect found it running;
\* when the inspect finds it not running the call fails and the handle stays
\* null; a handle that is set is the handle of that container.
C28_HandleOnlyWhenConfirmedRunning ==
  [][\A r \in Runs :
       /\ (containerId'[r] # containerId[r] /\ containerId'[r] # NoContainer)
            => /\ pc[r] = "postInspect" /\ containerId[r] = NoContainer
               /\ containerId'[r] = cobj[r] /\ cobj[r] \in mine[r]
               /\ Running(cobj[r])
               /\ err'[r] = "none"
       /\ (pc[r] = "postInspect" /\ pc'[r] # "postInspect" /\ ~Running(cobj[r]))
            => /\ containerId'[r] = NoContainer
               /\ err'[r] \in {"not_running", "inspect_failed"}
               /\ pc'[r] = "cleanup"
       /\ containerId[r] # NoContainer
            => containerId[r] = cobj[r] /\ hist[r].started /\ hist[r].creates = 1]_vars

\* The container exited within the wait: the inspect found it not running, the
\* call failed and the handle is null.
C28_Witness ==
  \E r \in Runs :
    /\ pc[r] = "cleanup" /\ err[r] = "not_running" /\ containerId[r] = NoContainer
    /\ Exists(cobj[r]) /\ containers[cobj[r]] = "exited"

\* C29: a removeContainer call that found the container running issues the
\* stop request first, and whatever the stop request gives, the forced removal
\* request is what the call issues next.
C29_StopThenForcedRemove ==
  [][\A r \in Runs :
       /\ (pc'[r] = "rmStop" /\ pc[r] # "rmStop")
            => pc[r] = "rmInspect" /\ Running(containerId[r])
       /\ (pc[r] = "rmInspect" /\ pc'[r] = "rmRemove") => ~Running(containerId[r])
       /\ (pc[r] = "rmStop" /\ pc'[r] # "rmStop") => pc'[r] = "rmRemove"]_vars

\* The stage of installDependenciesFromManifest a position belongs to: 1 the
\* libs directories, 2 the project's own npm install, 3 the manifest's npm
\* packages, 4 its yarn packages, 5 its forge libraries, 6 returned.
StageOf(p) ==
  CASE p = "mkdir" -> 1
    [] p \in {"projPkg", "projMods", "projWhich", "projInstall"} -> 2
    [] p \in {"npmWhich", "npmInstall"} -> 3
    [] p \in {"yarnWhich", "yarnAdd"} -> 4
    [] p = "forge" -> 5
    [] p = "installed" -> 6
    [] OTHER -> 0

\* The commands that install something.
InstallCommands == {"projInstall", "npmInstall", "yarnAdd", "forge"}

\* C30: installDependenciesFromManifest runs mkdir -p for every libs directory
\* before any install command is issued, then the project's own npm install at
\* most once, then the manifest's npm packages, then its yarn packages, then
\* forge install --no-git for the forge libraries one by one in list order; a
\* command is issued only when the stream of the command before it is closed.
C30_InstallOrder ==
  [][\A r \in Runs :
       LET a == StageOf(pc[r])
           b == StageOf(pc'[r])
           issued == /\ pc'[r] \in InstallSteps /\ xpc'[r] = "create"
                     /\ (pc'[r] # pc[r] \/ idx'[r] # idx[r] \/ xpc[r] # "create")
       IN /\ (a >= 1 /\ b >= 1) => b >= a
          /\ (pc[r] = "install" /\ b >= 1) => b \in {1, 6}
          /\ (a = 1 /\ b \in 2..5) => idx[r] = libs[r] /\ pc'[r] = "projPkg"
          /\ (issued /\ pc'[r] = "mkdir")
               => /\ idx'[r] = (IF pc[r] = "mkdir" THEN idx[r] + 1 ELSE 1)
                  /\ idx'[r] <= libs[r]
          /\ (issued /\ pc'[r] = "forge")
               => /\ idx'[r] = (IF pc[r] = "forge" THEN idx[r] + 1 ELSE 1)
                  /\ idx'[r] <= Len(deps'[r].forge)
                  /\ LET cmd == InstallCmd("forge", deps'[r], idx'[r])
                     IN /\ "--no-git" \in Range(cmd)
                        /\ cmd[Len(cmd)] = deps'[r].forge[idx'[r]]
          /\ (issued /\ pc'[r] \notin {"mkdir", "forge"}) => pc[r] # pc'[r]
          /\ (issued /\ pc'[r] = "projInstall") => pc[r] = "projWhich"
          /\ (issued /\ pc'[r] = "npmInstall")
               => pc[r] = "npmWhich" /\ Len(deps[r].npm) > 0
          /\ (issued /\ pc'[r] = "yarnAdd")
               => pc[r] = "yarnWhich" /\ Len(deps[r].yarn) > 0
          /\ issued => ~streamOpen'[r] /\ containerId[r] # NoContainer]_vars

\* Both libs directories were made, the manifest's npm and yarn packages were
\* handled and the second forge library is being installed.
C30_Witness ==
  \E r \in Runs :
    /\ pc[r] = "forge" /\ idx[r] = 2 /\ xpc[r] = "wait" /\ libs[r] = 2
    /\ Len(deps[r].npm) > 0 /\ Len(deps[r].yarn) > 0
    /\ InstallCmd(pc[r], deps[r], idx[r])
         = <<"forge", "install", "--root", "/workspace", "--no-git", deps[r].forge[2]>>

\* The token list `tokens` is what the claim says of the manifest section `sec`:
\* as long as the section; a list element for element, without a version; a
\* mapping as name@version in entry order; an absent section as the empty list.
TokensOf(sec, tokens) ==
  /\ Len(tokens) = Len(sec.items)
  /\ sec.form = "absent" => tokens = <<>>
  /\ sec.form = "list" => \A i \in 1..Len(tokens) : tokens[i] = <<sec.items[i]>>
  /\ sec.form = "map"
       => \A i \in 1..Len(tokens) :
            tokens[i] = <<sec.items[i][1]>> \o <<"@">> \o <<sec.items[i][2]>>

C32_MinusOneIffInspectFailed ==
  \A r \in Runs :
    (result[r].set /\ result[r].exitCode = NoExitCode)
      <=> (hist[r].testStarted /\ err[r] = "exec_inspect_failed")

\* C32, amended: the result carries exit code -1 exactly when the inspect call
\* returned without an exit code; an exit code that was read is never -1; when
\* the inspect call fails there is no result at all and the call fails with
\* the inspect error.
C32_MinusOneIffNoExitCodeReported ==
  \A r \in Runs :
    /\ result[r].set => (result[r].exitCode = NoExitCode <=> hist[r].noExitCode)
    /\ (result[r].set /\ ~hist[r].noExitCode) => result[r].exitCode \in ExitCodes
    /\ hist[r].noExitCode => result[r].set
    /\ result[r].set => err[r] = "none"
    /\ err[r] = "exec_inspect_failed" => ~result[r].set /\ report[r].form # "verdict"

\* The inspect call returned without an exit code, and the run reported the
\* result with exit code -1.
C32_Witness ==
  \E r \in Runs :
    /\ pc[r] = "done" /\ result[r].set /\ result[r].exitCode = NoExitCode
    /\ hist[r].noExitCode /\ err[r] = "none"

\* C33: once the output stream has ended, the exit code is read as soon as the
\* sinks have ended or the grace period has elapsed: the wait never lasts
\* longer than the grace period, it leads to the inspect call and nowhere
\* else, and it always ends.
C33_GraceBoundsTheWait ==
  /\ [](\A r \in Runs : xpc[r] = "grace" => clock[r] <= GraceTicks /\ ~streamOpen[r])
  /\ [][\A r \in Runs : (xpc[r] = "grace" /\ xpc'[r] # "grace")
                           => xpc'[r] = "inspect" /\ pc'[r] = pc[r]]_vars
  /\ \A r \in Runs : (xpc[r] = "grace") ~> (xpc[r] = "inspect")

\* The test command's stream has ended and the whole grace period has gone by
\* without the sinks ending: the timer of the race ends the wait.
C33_Witness ==
  \E r \in Runs : pc[r] = "test" /\ xpc[r] = "grace" /\ clock[r] = GraceTicks
                   /\ ENABLED GraceElapsed(r)

\* The chunks of a chunk list, each with its sink and its position.
Chunks(sink, list) == {<<sink, i, list[i]>> : i \in 1..Len(list)}

\* C34: each sink's captured output is the chunks demultiplexed to that sink,
\* in arrival order: a chunk is appended at the end of its own sink's list while
\* the command is running, the other sink's list stays as it is, and nothing
\* else changes the lists up to the report; every chunk is forwarded to
\* process.stderr in the step that appends it, and nothing else is forwarded.
C34_SinksKeepArrivalOrder ==
  /\ [](\A r \in Runs :
          hist[r].forwarded
            = Chunks("stdout", result[r].stdout) \cup Chunks("stderr", result[r].stderr))
  /\ [][\A r \in Runs :
          LET out == result[r].stdout
              errs == result[r].stderr
              grown(old, new) == Len(new) = Len(old) + 1 /\ SubSeq(new, 1, Len(old)) = old
          IN (pc'[r] # "idle" /\ (result'[r].stdout # out \/ result'[r].stderr # errs))
               => /\ pc[r] = "test" /\ xpc[r] = "wait" /\ xpc'[r] = "wait"
                  /\ streamOpen[r] /\ ~result'[r].set
                  /\ \/ grown(out, result'[r].stdout) /\ result'[r].stderr = errs
                     \/ grown(errs, result'[r].stderr) /\ result'[r].stdout = out
                  /\ Cardinality(hist'[r].forwarded \ hist[r].forwarded) = 1]_vars

\* The test command wrote to both sinks and its result was returned with the
\* two chunk lists.
C34_Witness ==
  \E r \in Runs :
    /\ pc[r] = "done" /\ result[r].set
    /\ result[r].stdout = <<"Revert">> /\ result[r].stderr = <<"\n">>
    /\ hist[r].forwarded = {<<"stdout", 1, "Revert">>, <<"stderr", 1, "\n">>}

\* The candidate locations of layout l that are tried and hold both files.
FullMatches(l) ==
  {i \in 1..Len(Candidates) : Tried(l, i) /\ l.files[i] = "both"}

FullProgress ==
  <<"step1Start", "step1Complete", "step2Start", "step2Complete",
    "step3Start", "step3Complete", "step4Start", "step4Complete">>

\* Sequence a is an initial part of sequence b.
IsPrefix(a, b) == Len(a) <= Len(b) /\ SubSeq(b, 1, Len(a)) = a

\* C36: the progress log of a run only grows and keeps the order start of
\* step n, completion of step n, start of step n + 1; and every report the
\* run returns (PASS, FAIL, sandbox failure) holds the entries accumulated so
\* far, in that order.  (Violated: the report of the catch block holds none.)
C36_ProgressLogInEveryReport ==
  /\ [](\A r \in Runs :
          /\ IsPrefix(hist[r].progressLogs, FullProgress)
          /\ report[r].form # "none"
               => report[r].progress = ProgressSummary(hist[r].progressLogs))
  /\ [][\A r \in Runs :
          pc[r] \notin {"done", "rejected"}
            => IsPrefix(hist[r].progressLogs, hist'[r].progressLogs)]_vars

\* The positions of a runForgeInDocker call inside the function passed to
\* withDockerLifecycleLock, up to the release() of the finally block.
BodySteps == {"root", "ensure", "fbuilding", "run", "fcleanup", "release"}

\* The calls invoked before call c: those whose lock promise c's chain of
\* awaited promises leads to.
RECURSIVE InvokedBefore(_)
InvokedBefore(c) ==
  IF previous[c] = NoCall THEN {}
  ELSE {previous[c]} \cup InvokedBefore(previous[c])

\* C37: the lifecycle lock serialises concurrent runForgeInDocker calls: at
\* most one call is inside its body at any time, so two image builds never run
\* at once, and a call enters its body only when every call invoked before it
\* has entered and left its own (entry in invocation order).
C37_LockSerializesCalls ==
  /\ [](/\ Cardinality({c \in Runs : fpc[c] \in BodySteps}) <= 1
        /\ Cardinality({c \in Runs : fpc[c] = "fbuilding"}) <= 1
        /\ \A c \in Runs :
             fpc[c] \in BodySteps \cup {"returned"}
               => \A d \in InvokedBefore(c) : fpc[d] = "returned")
  /\ [][\A c \in Runs :
          (fpc[c] = "waiting" /\ fpc'[c] # "waiting")
            => /\ fpc'[c] = "root"
               /\ \A d \in Runs \ {c} : fpc[d] \notin BodySteps
               /\ \A d \in Runs \ {c} :
                    fpc[d] = "waiting" => d \notin InvokedBefore(c)]_vars

\* One call is building the image while the call invoked after it waits for
\* the lock.
C37_Witness ==
  \E c, d \in Runs :
    /\ c # d /\ fpc[c] = "fbuilding" /\ fpc[d] = "waiting"
    /\ previous[d] = c /\ previous[c] = NoCall

\* C38: the lifecycle lock is released on every exit of a body (a result, a
\* thrown error, a subprocess timeout), so a call that has left its body has
\* released the lock, every queued call eventually enters its body and every
\* call in its body eventually releases the lock, whatever the calls before
\* it did.
C38_LockAlwaysReleased ==
  /\ [](\A c \in Runs : fpc[c] = "returned" <=> c \in released)
  /\ \A c \in Runs : (fpc[c] = "waiting") ~> (fpc[c] \in BodySteps)
  /\ \A c \in Runs : (fpc[c] \in BodySteps) ~> (c \in released)

\* A call failed and the call queued behind it is running its body.
C38_Witness ==
  \E c, d \in Runs :
    /\ c # d /\ previous[d] = c
    /\ fpc[c] = "returned" /\ forgeResult[c] = "error"
    /\ fpc[d] \in BodySteps

C40_EveryRunReturnsAReport ==
  \A r \in Runs : (pc[r] # "idle") ~> (report[r].form # "none")

\* C40: provided every engine call and every subprocess returns or fails,
\* every run of runTest whose arguments pass the schema eventually returns,
\* and returns exactly one report: a report exists exactly when the run has
\* returned and is never replaced; a command that never terminates is ended
\* by its timer.  A run whose arguments violate the schema ends by throwing,
\* without a report.
C40_ValidRunReturnsOneReport ==
  /\ \A r \in Runs : (pc[r] \notin {"idle", "done", "rejected"}) ~> (pc[r] = "done")
  /\ [](\A r \in Runs :
          /\ (pc[r] = "done") <=> (report[r].form # "none")
          /\ pc[r] = "rejected" => ~checks[r].schema)
  /\ [][\A r \in Runs :
          (report[r].form # "none" /\ pc'[r] # "idle") => report'[r] = report[r]]_vars

\* The test command never terminated: its timer fired when the full time had
\* passed, and the run returned its report.
C40_Witness ==
  \E r \in Runs :
    /\ pc[r] = "done" /\ hist[r].timedOut /\ hist[r].timeoutAt = TimeoutTicks
    /\ report[r] = ErrorReport("timeout")

====
